---- MODULE Spec2Model ----
(***************************************************************************)
(* Voice journal: the date-indexed document merge engine of                *)
(* client/src/utils/textProcessor.ts (TextProcessor) and the date          *)
(* handling of the summarizer boundary in                                  *)
(* server/services/openaiService.ts (OpenAIService).                       *)
(*                                                                         *)
(* Text is modelled as the code sees it: a string is a sequence of         *)
(* one-character strings, a document is one such sequence in which "\n"    *)
(* separates lines, and split / join / trim / the header regular           *)
(* expression are computed character by character.                         *)
(***************************************************************************)
EXTENDS Integers, Sequences, FiniteSets, TLC

VARIABLES
    journalContent,   \* the document text threaded from call to call
    now,              \* the calendar date a `new Date()` would read
    call,             \* the last engine call: its arguments and what it returned
    raw,              \* summarizer boundary: the phrase groups as received
    sections,         \* summarizer boundary: the date sections built from raw
    storage,          \* the page's localStorage item, Null while there is none
    effects,          \* the page's effects of the last render still to run
    request,          \* the page's summarization request and its confirmation
    poll,             \* pollTranscription: the call in progress and its requests
    speech            \* SpeechToTextButton: its state, refs and backends

vars == <<journalContent, now, call, raw, sections, storage, effects, request,
          poll, speech>>

(***************************************************************************)
(* Bounds of the model.                                                    *)
(***************************************************************************)
MaxDocLines == 3      \* lines of an initial document; calls stop above it
MaxGroups   == 2      \* date groups of a payload
MaxEntries  == 1      \* entries under one date line of a payload
MaxTicks    == 1      \* midnights that may pass
MaxSections == 2      \* phrase groups of one summarizer response
MaxDaysOn   == 6      \* days the normalizer is followed on from a first day
MaxMatches  == 2      \* date expressions datePattern finds in one spoken text

(***************************************************************************)
(* Strings.                                                                *)
(***************************************************************************)
NL == "\n"
Whitespace == {" ", NL}
Digits == {"0", "1", "2", "3", "4", "5", "6", "7", "8", "9"}

\* String.prototype.trim
Trim(s) ==
    LET keep == {i \in 1..Len(s) : s[i] \notin Whitespace}
    IN  IF keep = {} THEN <<>>
        ELSE LET lo == CHOOSE i \in keep : \A j \in keep : i <= j
                 hi == CHOOSE i \in keep : \A j \in keep : j <= i
             IN  SubSeq(s, lo, hi)

\* String.prototype.startsWith
StartsWith(s, p) == Len(s) >= Len(p) /\ SubSeq(s, 1, Len(p)) = p

\* String.prototype.split('\n')
RECURSIVE Split(_)
Split(s) ==
    LET nls == {i \in 1..Len(s) : s[i] = NL}
    IN  IF nls = {} THEN <<s>>
        ELSE LET i == CHOOSE k \in nls : \A j \in nls : k <= j
             IN  <<SubSeq(s, 1, i - 1)>> \o Split(SubSeq(s, i + 1, Len(s)))

\* Array.prototype.join('\n')
RECURSIVE Join(_)
Join(lines) ==
    IF Len(lines) = 0 THEN <<>>
    ELSE IF Len(lines) = 1 THEN lines[1]
    ELSE lines[1] \o <<NL>> \o Join(Tail(lines))

AllDigits(s, i, j) == \A k \in i..j : s[k] \in Digits

\* /^\d{1,2}\.\d{1,2}\.\d{4}$/.test(s)
DateKeyRegexTest(s) ==
    \E a \in 1..2 : \E b \in 1..2 :
        /\ Len(s) = a + b + 6
        /\ AllDigits(s, 1, a)
        /\ s[a + 1] = "."
        /\ AllDigits(s, a + 2, a + 1 + b)
        /\ s[a + b + 2] = "."
        /\ AllDigits(s, a + b + 3, a + b + 6)

DigitChar(d) == <<"0", "1", "2", "3", "4", "5", "6", "7", "8", "9">>[d + 1]

\* Number -> decimal string, as a template literal prints it
RECURSIVE NatToStr(_)
NatToStr(n) ==
    IF n < 10 THEN <<DigitChar(n)>>
    ELSE NatToStr(n \div 10) \o <<DigitChar(n % 10)>>

Dash == <<"-", " ">>

(***************************************************************************)
(* TextProcessor.                                                          *)
(***************************************************************************)
\* today is the date read by `new Date()`: [y, m, d]
formatDateHeader(today) ==
    NatToStr(today.m) \o <<".">> \o NatToStr(today.d) \o <<".">> \o NatToStr(today.y)

\* mutant: the line is compared without trimming it
hasDateHeader_Untrimmed(journal, dateHeader) ==
    LET lines == Split(journal)
    IN  \E i \in 1..Len(lines) : lines[i] = dateHeader

hasDateHeader(journal, dateHeader) ==
    LET lines == Split(journal)
    IN  \E i \in 1..Len(lines) : Trim(lines[i]) = dateHeader

hasMultipleDates(newBullets) ==
    \E i \in 1..Len(newBullets) : DateKeyRegexTest(Trim(newBullets[i]))

\* Array.prototype.includes
InSeq(x, xs) == \E i \in 1..Len(xs) : xs[i] = x

\* index of the first element of a sequence satisfying a test, 0 when none
FirstIndex(S) == IF S = {} THEN 0 ELSE CHOOSE i \in S : \A j \in S : i <= j

\* Array.from(new Set(...)) of the trimmed header lines of newBullets, else today
RECURSIVE CollectDates(_, _, _)
CollectDates(newBullets, i, acc) ==
    IF i > Len(newBullets) THEN acc
    ELSE LET trimmed == Trim(newBullets[i])
         IN  IF DateKeyRegexTest(trimmed) /\ \A k \in 1..Len(acc) : acc[k] # trimmed
             THEN CollectDates(newBullets, i + 1, Append(acc, trimmed))
             ELSE CollectDates(newBullets, i + 1, acc)

\* mutant: a date is reported once for each of its header lines
getAffectedDates_EveryHeader(newBullets, today) ==
    IF hasMultipleDates(newBullets)
    THEN LET heads == SelectSeq(newBullets, LAMBDA bullet : DateKeyRegexTest(Trim(bullet)))
         IN  [i \in 1..Len(heads) |-> Trim(heads[i])]
    ELSE <<formatDateHeader(today)>>

getAffectedDates(newBullets, today) ==
    IF hasMultipleDates(newBullets)
    THEN CollectDates(newBullets, 1, <<>>)
    ELSE <<formatDateHeader(today)>>

\* mutant: every affected date is reported
getExistingDates_All(journal, affectedDates) == affectedDates

getExistingDates(journal, affectedDates) ==
    SelectSeq(affectedDates, LAMBDA date : hasDateHeader(journal, date))

\* mutant: only the lines that start with "- " are collected
RECURSIVE contentLinesFrom_EntriesOnly(_, _, _)
contentLinesFrom_EntriesOnly(lines, i, contentLines) ==
    IF i > Len(lines) \/ DateKeyRegexTest(Trim(lines[i])) THEN contentLines
    ELSE IF StartsWith(Trim(lines[i]), Dash)
    THEN contentLinesFrom_EntriesOnly(lines, i + 1, Append(contentLines, Trim(lines[i])))
    ELSE contentLinesFrom_EntriesOnly(lines, i + 1, contentLines)

\* the while loop of getContentToBeOverwritten from line i on
RECURSIVE contentLinesFrom(_, _, _)
contentLinesFrom(lines, i, contentLines) ==
    IF i > Len(lines) \/ DateKeyRegexTest(Trim(lines[i])) THEN contentLines
    ELSE IF \/ StartsWith(Trim(lines[i]), Dash)
            \/ (Trim(lines[i]) # <<>> /\ ~DateKeyRegexTest(Trim(lines[i])))
    THEN contentLinesFrom(lines, i + 1, Append(contentLines, Trim(lines[i])))
    ELSE contentLinesFrom(lines, i + 1, contentLines)

\* result[date] = contentLines for the date whose header line is at
\* dateIndex, result as it is when dateIndex is 0 (findIndex gave -1)
contentOf(result, lines, date, dateIndex) ==
    IF dateIndex = 0 THEN result
    ELSE SelectSeq(result, LAMBDA r : r.date # date)
             \o <<[date |-> date, lines |-> contentLinesFrom(lines, dateIndex + 1, <<>>)]>>

\* getContentToBeOverwritten: result in the order its keys were first set
RECURSIVE contentToBeOverwrittenFrom(_, _, _, _)
contentToBeOverwrittenFrom(lines, datesToOverwrite, n, result) ==
    IF n > Len(datesToOverwrite) THEN result
    ELSE contentToBeOverwrittenFrom(lines, datesToOverwrite, n + 1,
             contentOf(result, lines, datesToOverwrite[n],
                       FirstIndex({i \in 1..Len(lines) : Trim(lines[i]) = datesToOverwrite[n]})))

getContentToBeOverwritten(journal, datesToOverwrite) ==
    contentToBeOverwrittenFrom(Split(journal), datesToOverwrite, 1, <<>>)

\* The loop that files the payload's entries under its header lines:
\* dateEvents in insertion order, as Object.entries walks it.
RECURSIVE parseDateEvents(_, _, _, _)
parseDateEvents(newBullets, i, currentDate, dateEvents) ==
    IF i > Len(newBullets) THEN dateEvents
    ELSE LET trimmed == Trim(newBullets[i])
             at == FirstIndex({k \in 1..Len(dateEvents) : dateEvents[k].date = trimmed})
             cur == FirstIndex({k \in 1..Len(dateEvents) : dateEvents[k].date = currentDate})
         IN  IF DateKeyRegexTest(trimmed)
             THEN parseDateEvents(newBullets, i + 1, trimmed,
                      IF at = 0
                      THEN Append(dateEvents, [date |-> trimmed, events |-> <<>>])
                      ELSE dateEvents)
             ELSE IF StartsWith(trimmed, Dash) /\ currentDate # <<>>
             THEN parseDateEvents(newBullets, i + 1, currentDate,
                      [dateEvents EXCEPT ![cur].events = Append(@, trimmed)])
             ELSE parseDateEvents(newBullets, i + 1, currentDate, dateEvents)

\* mutant: splice(insertIndex, 1, ...events) removes the line it inserts before
Splice_DeleteOne(lines, insertIndex, events) ==
    SubSeq(lines, 1, insertIndex - 1) \o events \o SubSeq(lines, insertIndex + 1, Len(lines))

\* lines.splice(insertIndex, 0, ...events), insertIndex counted from 1
Splice(lines, insertIndex, events) ==
    SubSeq(lines, 1, insertIndex - 1) \o events \o SubSeq(lines, insertIndex, Len(lines))

\* mutant: a new section is put in front of the document
mergeDateSection_NewSectionFirst(result, date, events) ==
    IF Len(events) = 0 THEN result
    ELSE IF ~hasDateHeader(result, date)
    THEN date \o <<NL>> \o Join(events)
             \o (IF Len(result) > 0 THEN <<NL, NL>> \o result ELSE result)
    ELSE LET lines == Split(result)
             dateIndex == FirstIndex({i \in 1..Len(lines) : Trim(lines[i]) = date})
             stops == {k \in (dateIndex + 1)..Len(lines) :
                          ~(StartsWith(lines[k], Dash) \/ Trim(lines[k]) = <<>>)}
             insertIndex == IF stops = {} THEN Len(lines) + 1 ELSE FirstIndex(stops)
         IN  Join(Splice(lines, insertIndex, events))

\* One turn of mergeMultiDateContent's loop over the date sections
mergeDateSection(result, date, events) ==
    IF Len(events) = 0 THEN result
    ELSE IF ~hasDateHeader(result, date)
    THEN (IF Len(result) > 0 THEN result \o <<NL, NL>> ELSE result)
             \o date \o <<NL>> \o Join(events)
    ELSE LET lines == Split(result)
             dateIndex == FirstIndex({i \in 1..Len(lines) : Trim(lines[i]) = date})
             stops == {k \in (dateIndex + 1)..Len(lines) :
                          ~(StartsWith(lines[k], Dash) \/ Trim(lines[k]) = <<>>)}
             insertIndex == IF stops = {} THEN Len(lines) + 1 ELSE FirstIndex(stops)
         IN  Join(Splice(lines, insertIndex, events))

RECURSIVE mergeSections(_, _, _)
mergeSections(result, dateEvents, k) ==
    IF k > Len(dateEvents) THEN result
    ELSE mergeSections(mergeDateSection(result, dateEvents[k].date, dateEvents[k].events),
                       dateEvents, k + 1)

mergeMultiDateContent(currentContent, newBullets) ==
    mergeSections(Trim(currentContent), parseDateEvents(newBullets, 1, <<>>, <<>>), 1)

\* The single-date branch of appendToJournal
appendSingleDate(currentContent, newBullets, today) ==
    LET dateHeader == formatDateHeader(today)
        hasDate == hasDateHeader(currentContent, dateHeader)
        trimmed == Trim(currentContent)
        result == IF ~hasDate
                  THEN (IF Len(trimmed) > 0 THEN trimmed \o <<NL, NL>> ELSE trimmed)
                           \o dateHeader \o <<NL>>
                  ELSE IF Len(trimmed) > 0 /\ trimmed[Len(trimmed)] # NL
                  THEN trimmed \o <<NL>>
                  ELSE trimmed
    IN  result \o Join(newBullets)

\* mutant: every payload takes the single-date branch
appendToJournal_AlwaysSingleDate(currentContent, newBullets, today) ==
    IF Len(newBullets) = 0 THEN currentContent
    ELSE appendSingleDate(currentContent, newBullets, today)

appendToJournal(currentContent, newBullets, today) ==
    IF Len(newBullets) = 0 THEN currentContent
    ELSE IF hasMultipleDates(newBullets)
    THEN mergeMultiDateContent(currentContent, newBullets)
    ELSE appendSingleDate(currentContent, newBullets, today)

\* mutant: the section ends at the first line that is no entry
overwriteSingleDate_EndsAtNonEntry(currentContent, newBullets, dateToOverwrite, today) ==
    LET lines == Split(currentContent)
        dateIndex == FirstIndex({i \in 1..Len(lines) : Trim(lines[i]) = dateToOverwrite})
        heads == {k \in (dateIndex + 1)..Len(lines) : ~StartsWith(Trim(lines[k]), Dash)}
        endIndex == IF heads = {} THEN Len(lines) + 1 ELSE FirstIndex(heads)
    IN  IF dateIndex = 0
        THEN appendToJournal(currentContent, <<dateToOverwrite>> \o newBullets, today)
        ELSE Join(SubSeq(lines, 1, dateIndex) \o newBullets
                      \o SubSeq(lines, endIndex, Len(lines)))

overwriteSingleDate(currentContent, newBullets, dateToOverwrite, today) ==
    LET lines == Split(currentContent)
        dateIndex == FirstIndex({i \in 1..Len(lines) : Trim(lines[i]) = dateToOverwrite})
        heads == {k \in (dateIndex + 1)..Len(lines) : DateKeyRegexTest(Trim(lines[k]))}
        endIndex == IF heads = {} THEN Len(lines) + 1 ELSE FirstIndex(heads)
    IN  IF dateIndex = 0
        THEN appendToJournal(currentContent, <<dateToOverwrite>> \o newBullets, today)
        ELSE Join(SubSeq(lines, 1, dateIndex) \o newBullets
                      \o SubSeq(lines, endIndex, Len(lines)))

\* One turn of overwriteMultiDateContent's loop over the date sections
overwriteDateSection(result, date, events, datesToOverwrite, today) ==
    IF Len(events) = 0 THEN result
    ELSE IF date \in datesToOverwrite
    THEN overwriteSingleDate(result, events, date, today)
    ELSE appendToJournal(result, <<date>> \o events, today)

RECURSIVE overwriteSections(_, _, _, _, _)
overwriteSections(result, dateEvents, k, datesToOverwrite, today) ==
    IF k > Len(dateEvents) THEN result
    ELSE overwriteSections(
             overwriteDateSection(result, dateEvents[k].date, dateEvents[k].events,
                                  datesToOverwrite, today),
             dateEvents, k + 1, datesToOverwrite, today)

overwriteMultiDateContent(currentContent, newBullets, datesToOverwrite, today) ==
    overwriteSections(currentContent, parseDateEvents(newBullets, 1, <<>>, <<>>), 1,
                      datesToOverwrite, today)

\* datesToOverwrite is used through Array.includes only: a set
overwriteJournal(currentContent, newBullets, datesToOverwrite, today) ==
    IF Len(newBullets) = 0 THEN currentContent
    ELSE IF hasMultipleDates(newBullets)
    THEN overwriteMultiDateContent(currentContent, newBullets, datesToOverwrite, today)
    ELSE IF formatDateHeader(today) \in datesToOverwrite
    THEN overwriteSingleDate(currentContent, newBullets, formatDateHeader(today), today)
    ELSE appendToJournal(currentContent, newBullets, today)

(***************************************************************************)
(* The calendar read by `new Date()`.                                      *)
(***************************************************************************)
IsLeapYear(y) == (y % 4 = 0 /\ y % 100 # 0) \/ y % 400 = 0

DaysInMonth(y, m) ==
    IF m = 2 THEN (IF IsLeapYear(y) THEN 28 + 1 ELSE 28)
    ELSE IF m \in {4, 6, 9, 11} THEN 30
    ELSE 31

NextDay(t) ==
    IF t.d < DaysInMonth(t.y, t.m) THEN [t EXCEPT !.d = @ + 1]
    ELSE IF t.m < 12 THEN [t EXCEPT !.d = 1, !.m = @ + 1]
    ELSE [y |-> t.y + 1, m |-> 1, d |-> 1]

RECURSIVE DayPlus(_, _)
DayPlus(t, k) == IF k = 0 THEN t ELSE DayPlus(NextDay(t), k - 1)

(***************************************************************************)
(* OpenAIService: the dates of the summarizer's phrase groups.  A value    *)
(* that is no string (undefined, null, a number) is a one-element sequence *)
(* holding its type name, which no sequence of characters equals.          *)
(***************************************************************************)
Undefined == <<"undefined">>
Null == <<"null">>
ANumber == <<"number">>
NonStrings == {Undefined, Null, ANumber}

UpperCase == <<"A", "B", "C", "D", "E", "F", "G", "H", "I", "J", "K", "L", "M", "N", "O", "P", "Q", "R", "S", "T", "U", "V", "W", "X", "Y", "Z">>
LowerCase == <<"a", "b", "c", "d", "e", "f", "g", "h", "i", "j", "k", "l", "m", "n", "o", "p", "q", "r", "s", "t", "u", "v", "w", "x", "y", "z">>
\* the characters \w matches
WordChars == Digits \cup {"_"} \cup {UpperCase[i] : i \in 1..26} \cup {LowerCase[i] : i \in 1..26}

\* String.prototype.toLowerCase
toLowerCase(s) ==
    [i \in 1..Len(s) |->
        IF \E k \in 1..26 : UpperCase[k] = s[i]
        THEN LowerCase[CHOOSE k \in 1..26 : UpperCase[k] = s[i]]
        ELSE s[i]]

\* p occurs in s at index i
MatchesAt(s, i, p) == i + Len(p) - 1 <= Len(s) /\ SubSeq(s, i, i + Len(p) - 1) = p

\* String.prototype.includes
Includes(s, p) == \E i \in 1..Len(s) : MatchesAt(s, i, p)

\* parseInt of a run of digits
RECURSIVE ParseInt(_)
ParseInt(s) ==
    IF Len(s) = 0 THEN 0
    ELSE 10 * ParseInt(SubSeq(s, 1, Len(s) - 1))
             + (CHOOSE d \in 0..9 : DigitChar(d) = s[Len(s)])

LastIndex(S) == IF S = {} THEN 0 ELSE CHOOSE i \in S : \A j \in S : j <= i

\* /^(\d{1,2})[\/\-](\d{1,2})[\/\-](\d{4})$/ : the lengths of the first two
\* groups, <<>> when the string does not match
FullDateMatch(s) ==
    LET fits == {ab \in (1..2) \X (1..2) :
                    /\ Len(s) = ab[1] + ab[2] + 6
                    /\ AllDigits(s, 1, ab[1])
                    /\ s[ab[1] + 1] \in {"/", "-"}
                    /\ AllDigits(s, ab[1] + 2, ab[1] + ab[2] + 1)
                    /\ s[ab[1] + ab[2] + 2] \in {"/", "-"}
                    /\ AllDigits(s, ab[1] + ab[2] + 3, ab[1] + ab[2] + 6)}
    IN  IF fits = {} THEN <<>> ELSE CHOOSE ab \in fits : TRUE

\* /^(\d{1,2})[\/\-](\d{1,2})$/ : the length of the first group, 0 for no match
ShortDateMatch(s) ==
    FirstIndex({a \in 1..2 : \E b \in 1..2 :
                    /\ Len(s) = a + b + 1
                    /\ AllDigits(s, 1, a)
                    /\ s[a + 1] \in {"/", "-"}
                    /\ AllDigits(s, a + 2, a + b + 1)})

dayNames ==
    <<<<"s", "u", "n", "d", "a", "y">>,
      <<"m", "o", "n", "d", "a", "y">>,
      <<"t", "u", "e", "s", "d", "a", "y">>,
      <<"w", "e", "d", "n", "e", "s", "d", "a", "y">>,
      <<"t", "h", "u", "r", "s", "d", "a", "y">>,
      <<"f", "r", "i", "d", "a", "y">>,
      <<"s", "a", "t", "u", "r", "d", "a", "y">>>>

monthNames ==
    <<<<"j", "a", "n", "u", "a", "r", "y">>,
      <<"f", "e", "b", "r", "u", "a", "r", "y">>,
      <<"m", "a", "r", "c", "h">>,
      <<"a", "p", "r", "i", "l">>,
      <<"m", "a", "y">>,
      <<"j", "u", "n", "e">>,
      <<"j", "u", "l", "y">>,
      <<"a", "u", "g", "u", "s", "t">>,
      <<"s", "e", "p", "t", "e", "m", "b", "e", "r">>,
      <<"o", "c", "t", "o", "b", "e", "r">>,
      <<"n", "o", "v", "e", "m", "b", "e", "r">>,
      <<"d", "e", "c", "e", "m", "b", "e", "r">>>>

\* Date.prototype.getDay, 0 for Sunday
getDay(t) ==
    LET offset == <<0, 3, 2, 5, 0, 3, 5, 1, 4, 6, 2, 4>>
        y == IF t.m < 3 THEN t.y - 1 ELSE t.y
    IN  (y + (y \div 4) - (y \div 100) + (y \div 400) + offset[t.m] + t.d) % 7

\* mutant: every month is taken to have 30 days
PrevDay_ThirtyDayMonths(t) ==
    IF t.d > 1 THEN [t EXCEPT !.d = @ - 1]
    ELSE IF t.m > 1 THEN [t EXCEPT !.m = @ - 1, !.d = 30]
    ELSE [y |-> t.y - 1, m |-> 12, d |-> 30]

PrevDay(t) ==
    IF t.d > 1 THEN [t EXCEPT !.d = @ - 1]
    ELSE IF t.m > 1 THEN [t EXCEPT !.m = @ - 1, !.d = DaysInMonth(t.y, t.m - 1)]
    ELSE [y |-> t.y - 1, m |-> 12, d |-> 31]

\* setDate(getDate() - k)
RECURSIVE DayMinus(_, _)
DayMinus(t, k) == IF k = 0 THEN t ELSE DayMinus(PrevDay(t), k - 1)

\* the end of the longest \w+day that starts at p, 0 when there is none
WordDayEnd(s, p) ==
    LastIndex({e \in (p + 3)..Len(s) :
                  /\ \A k \in p..e : s[k] \in WordChars
                  /\ SubSeq(s, e - 2, e) = <<"d", "a", "y">>})

\* the first index from k on that holds no blank, 0 when there is none
BlanksStop(s, k) == FirstIndex({j \in k..Len(s) : s[j] \notin Whitespace})

\* where (?:last\s+)? stops when tried at i: i itself when it matches nothing
AfterLast(s, i) ==
    IF MatchesAt(s, i, <<"l", "a", "s", "t">>) /\ i + 4 <= Len(s) /\ s[i + 4] \in Whitespace
    THEN (IF BlanksStop(s, i + 5) = 0 THEN Len(s) + 1 ELSE BlanksStop(s, i + 5))
    ELSE i

\* (\w+day) behind the optional prefix that stops at q, else at i itself
DayGroupAt(s, i, q) ==
    IF q # i /\ WordDayEnd(s, q) # 0 THEN q
    ELSE IF WordDayEnd(s, i) # 0 THEN i
    ELSE 0

\* /(?:last\s+)?(\w+day)/ tried at i: where group 1 starts, 0 for no match
DayMatchAt(s, i) == DayGroupAt(s, i, AfterLast(s, i))

\* group 1 of the match that starts at i, <<>> when i is 0
DayGroup(s, i, start) == IF i = 0 THEN <<>> ELSE SubSeq(s, start, WordDayEnd(s, start))
DayMatchFrom(s, i) == DayGroup(s, i, DayMatchAt(s, IF i = 0 THEN 1 ELSE i))

\* group 1 of the first match of /(?:last\s+)?(\w+day)/, <<>> for no match
DayMatch(s) == DayMatchFrom(s, FirstIndex({k \in 1..Len(s) : DayMatchAt(s, k) # 0}))

\* /(\w+)\s+(\d{1,2})(?:st|nd|rd|th)?(?:\s+(\d{4}))?/ tried at i, piece by
\* piece: \w+ runs to stop, the end of its word, and \s+ to dig, the end of
\* the blanks, as anything shorter is followed by the wrong class; the day
\* ends at dend, the suffix at send, and the year, when there is one, starts
\* at yr
MonthYear(s, i, stop, dig, dend, yr) ==
    IF s[i] \in WordChars /\ stop > i /\ dig > stop /\ s[dig] \in Digits
    THEN [matched |-> TRUE, name |-> SubSeq(s, i, stop - 1),
          day |-> SubSeq(s, dig, dend),
          year |-> IF yr # 0 /\ yr + 3 <= Len(s) /\ AllDigits(s, yr, yr + 3)
                   THEN SubSeq(s, yr, yr + 3) ELSE <<>>]
    ELSE [matched |-> FALSE, name |-> <<>>, day |-> <<>>, year |-> <<>>]

MonthSuffix(s, i, stop, dig, dend, send) ==
    MonthYear(s, i, stop, dig, dend,
              IF send + 1 <= Len(s) /\ s[send + 1] \in Whitespace
              THEN BlanksStop(s, send + 1) ELSE 0)

MonthDay(s, i, stop, dig, dend) ==
    MonthSuffix(s, i, stop, dig, dend,
                IF \E x \in {<<"s", "t">>, <<"n", "d">>, <<"r", "d">>, <<"t", "h">>} : MatchesAt(s, dend + 1, x)
                THEN dend + 2 ELSE dend)

MonthBlanks(s, i, stop, dig) ==
    MonthDay(s, i, stop, dig,
             IF dig + 1 <= Len(s) /\ s[dig + 1] \in Digits THEN dig + 1 ELSE dig)

MonthWord(s, i, stop) ==
    MonthBlanks(s, i, stop, IF stop = 0 THEN 0 ELSE BlanksStop(s, stop))

MonthMatchAt(s, i) ==
    MonthWord(s, i, FirstIndex({k \in i..Len(s) : s[k] \notin WordChars}))

MonthMatchFrom(s, i) == MonthMatchAt(s, IF i = 0 THEN 1 ELSE i)

\* the first match of the month expression
MonthMatch(s) == MonthMatchFrom(s, FirstIndex({k \in 1..Len(s) : MonthMatchAt(s, k).matched}))

\* `${parseInt(m[1])}.${parseInt(m[2])}.${m[3]}` for a match of fullDateMatch
fullDate(dateStr, full) ==
    NatToStr(ParseInt(SubSeq(dateStr, 1, full[1]))) \o <<".">>
        \o NatToStr(ParseInt(SubSeq(dateStr, full[1] + 2, full[1] + full[2] + 1)))
        \o <<".">> \o SubSeq(dateStr, full[1] + full[2] + 3, Len(dateStr))

\* `${parseInt(m[1])}.${parseInt(m[2])}.${currentYear}` for a match of shortDateMatch
shortDate(dateStr, short, today) ==
    NatToStr(ParseInt(SubSeq(dateStr, 1, short))) \o <<".">>
        \o NatToStr(ParseInt(SubSeq(dateStr, short + 2, Len(dateStr))))
        \o <<".">> \o NatToStr(today.y)

\* the day daysBack before today, for the day name at dayIndex
dayDate(lower, today, back) ==
    formatDateHeader(DayMinus(today, (IF back <= 0 THEN back + 7 ELSE back)
                                         + (IF Includes(lower, <<"l", "a", "s", "t">>) THEN 7 ELSE 0)))

\* `${monthIndex + 1}.${day}.${year}` for a match of monthMatch
monthDate(month, monthIndex, today) ==
    NatToStr(monthIndex) \o <<".">> \o NatToStr(ParseInt(month.day)) \o <<".">>
        \o (IF month.year # <<>> THEN NatToStr(ParseInt(month.year))
            ELSE NatToStr(today.y))

\* the day name and month name branches, with the indexes findIndex gave
\* (counted from 1, 0 for -1)
namedDateAt(lower, today, dayMatch, dayIndex, month, monthIndex) ==
    IF dayMatch # <<>> /\ dayIndex # 0
    THEN dayDate(lower, today, getDay(today) - (dayIndex - 1))
    ELSE IF month.matched /\ monthIndex # 0 THEN monthDate(month, monthIndex, today)
    ELSE Null

namedDate(lower, today, dayMatch, month) ==
    namedDateAt(lower, today, dayMatch,
                FirstIndex({k \in 1..7 : StartsWith(dayNames[k], dayMatch)}),
                month,
                FirstIndex({k \in 1..12 : StartsWith(monthNames[k], month.name)}))

\* the branches that read the lowercased expression
relativeDate(lower, today) ==
    IF Includes(lower, <<"t", "o", "d", "a", "y">>) THEN formatDateHeader(today)
    ELSE IF Includes(lower, <<"y", "e", "s", "t", "e", "r", "d", "a", "y">>) THEN formatDateHeader(PrevDay(today))
    ELSE namedDate(lower, today, DayMatch(lower), MonthMatch(lower))

\* normalizeDateFormat: the key of a date expression, Null when none applies
normalizeDateFormat(dateStr, today) ==
    IF dateStr \in NonStrings \/ dateStr = <<>> THEN Null
    ELSE IF DateKeyRegexTest(dateStr) THEN dateStr
    ELSE IF FullDateMatch(dateStr) # <<>> THEN fullDate(dateStr, FullDateMatch(dateStr))
    ELSE IF ShortDateMatch(dateStr) # 0
    THEN shortDate(dateStr, ShortDateMatch(dateStr), today)
    ELSE relativeDate(toLowerCase(dateStr), today)

\* section.events.filter(event => typeof event === 'string' && event.trim().length > 0)
filterEvents(events) ==
    IF events.isArray
    THEN SelectSeq(events.items, LAMBDA e : e \notin NonStrings /\ Len(Trim(e)) > 0)
    ELSE <<>>

\* one section of the response: its date normalized, today's key when the
\* normalization gives nothing
normalizeSection(section, today) ==
    LET normalizedDate == normalizeDateFormat(section.date, today)
    IN  [date |-> IF normalizedDate # Null THEN normalizedDate ELSE formatDateHeader(today),
         events |-> filterEvents(section.events)]

\* the sectionMap: one entry per date in insertion order, events concatenated
RECURSIVE deduplicate(_, _, _)
deduplicate(dateSections, i, sectionMap) ==
    IF i > Len(dateSections) THEN sectionMap
    ELSE LET at == FirstIndex({k \in 1..Len(sectionMap) :
                                  sectionMap[k].date = dateSections[i].date})
         IN  deduplicate(dateSections, i + 1,
                 IF at = 0 THEN Append(sectionMap, dateSections[i])
                 ELSE [sectionMap EXCEPT ![at].events = @ \o dateSections[i].events])

\* new Date(key.replace(/\./g, '/')).getTime() up to scale, for a key M.D.YYYY
getTime(key) ==
    LET dots == {i \in 1..Len(key) : key[i] = "."}
        a == FirstIndex(dots)
        b == LastIndex(dots)
    IN  ParseInt(SubSeq(key, b + 1, Len(key))) * 372
            + ParseInt(SubSeq(key, 1, a - 1)) * 31
            + ParseInt(SubSeq(key, a + 1, b - 1))

\* Array.prototype.sort((a, b) => dateB.getTime() - dateA.getTime()): stable
RECURSIVE sortNewestFirst(_)
sortNewestFirst(dateSections) ==
    IF Len(dateSections) <= 1 THEN dateSections
    ELSE LET front == sortNewestFirst(SubSeq(dateSections, 1, Len(dateSections) - 1))
             x == dateSections[Len(dateSections)]
             keep == Cardinality({k \in 1..Len(front) :
                                     getTime(front[k].date) >= getTime(x.date)})
         IN  SubSeq(front, 1, keep) \o <<x>> \o SubSeq(front, keep + 1, Len(front))

\* synthesizeKeyEventsWithDates from the parsed response on
synthesizeKeyEventsWithDates(result, today) ==
    LET mapped == [i \in 1..Len(result.dateSections) |->
                       normalizeSection(result.dateSections[i], today)]
        dateSections == IF result.isArray
                        THEN SelectSeq(mapped, LAMBDA section : Len(section.events) > 0)
                        ELSE <<[date |-> formatDateHeader(today), events |-> <<>>]>>
    IN  sortNewestFirst(deduplicate(dateSections, 1, <<>>))

\* fallbackMultiDateSynthesis from the matches of datePattern on: each match
\* with whether the remaining text still holds it and the events
\* fallbackSynthesis makes of the text behind it; whole is what
\* fallbackSynthesis makes of the whole text
fallbackMultiDateSynthesis(dateMatches, whole, today) ==
    LET found == SelectSeq(dateMatches, LAMBDA m : m.found)
        pushed == [i \in 1..Len(found) |->
                      [date |-> (LET normalizedDate == normalizeDateFormat(found[i].date, today)
                                 IN  IF normalizedDate # Null THEN normalizedDate
                                     ELSE formatDateHeader(today)),
                       events |-> found[i].events.items]]
        sortedSections == sortNewestFirst(deduplicate(pushed, 1, <<>>))
    IN  IF Len(dateMatches) = 0 \/ Len(sortedSections) = 0
        THEN <<[date |-> formatDateHeader(today), events |-> whole]>>
        ELSE sortedSections

(***************************************************************************)
(* TextProcessor: the bullet cleaner.                                      *)
(***************************************************************************)
\* PREFIXES_TO_REMOVE: each pattern as its words in lower case; a pattern
\* reads ^word\s+word\s+...\s+ without regard to case
PREFIXES_TO_REMOVE ==
    <<
       <<<<"i">>>>,
       <<<<"i", "'", "m">>>>,
       <<<<"i">>, <<"w", "e", "n", "t">>, <<"a", "n", "d">>>>,
       <<<<"i">>, <<"h", "a", "d">>>>,
       <<<<"i">>, <<"w", "a", "s">>>>,
       <<<<"i">>, <<"d", "i", "d">>>>,
       <<<<"t", "h", "e", "n">>, <<"i">>>>,
       <<<<"a", "n", "d">>, <<"i">>>>,
       <<<<"s", "o">>, <<"i">>>>,
       <<<<"a", "f", "t", "e", "r">>, <<"t", "h", "a", "t">>, <<"i">>>>
    >>

\* where a prefix pattern stops when its words from the k-th on are tried at
\* i: the index behind the blanks after its last word, 0 for no match
RECURSIVE PrefixEndFrom(_, _, _, _)
PrefixEndFrom(s, i, prefix, k) ==
    IF k > Len(prefix) THEN i
    ELSE IF /\ MatchesAt(toLowerCase(s), i, prefix[k])
            /\ i + Len(prefix[k]) <= Len(s)
            /\ s[i + Len(prefix[k])] \in Whitespace
    THEN PrefixEndFrom(s, IF BlanksStop(s, i + Len(prefix[k])) = 0 THEN Len(s) + 1
                          ELSE BlanksStop(s, i + Len(prefix[k])),
                       prefix, k + 1)
    ELSE 0

PrefixEnd(s, prefix) == PrefixEndFrom(s, 1, prefix, 1)

\* cleaned.replace(prefix, '')
removePrefix(cleaned, prefix) ==
    IF PrefixEnd(cleaned, prefix) = 0 THEN cleaned
    ELSE SubSeq(cleaned, PrefixEnd(cleaned, prefix), Len(cleaned))

\* the loop over PREFIXES_TO_REMOVE from the n-th pattern on
RECURSIVE removePrefixes(_, _)
removePrefixes(cleaned, n) ==
    IF n > Len(PREFIXES_TO_REMOVE) THEN cleaned
    ELSE removePrefixes(removePrefix(cleaned, PREFIXES_TO_REMOVE[n]), n + 1)

\* String.prototype.toUpperCase of one character
toUpperCase(c) ==
    IF \E k \in 1..26 : LowerCase[k] = c
    THEN UpperCase[CHOOSE k \in 1..26 : LowerCase[k] = c]
    ELSE c

\* cleaned.charAt(0).toUpperCase() + cleaned.slice(1)
capitalize(cleaned) ==
    IF Len(cleaned) > 0 THEN <<toUpperCase(cleaned[1])>> \o Tail(cleaned) ELSE cleaned

\* cleaned.replace(/[.!?]+$/, '')
removeTrailingPunctuation(cleaned) ==
    SubSeq(cleaned, 1, LastIndex({i \in 1..Len(cleaned) : cleaned[i] \notin {".", "!", "?"}}))

cleanBullet(bullet) ==
    Trim(removeTrailingPunctuation(capitalize(removePrefixes(Trim(bullet), 1))))

\* where a run of \s+ tried at k stops, 0 when there is no blank at k
BlanksEnd(s, k) ==
    IF k > Len(s) \/ s[k] \notin Whitespace THEN 0
    ELSE IF BlanksStop(s, k) = 0 THEN Len(s) + 1 ELSE BlanksStop(s, k)

\* (?:,?\s*(?:and then|then)\s+) tried at i, case ignored: the index behind
\* the match, 0 when there is none
ThenEnd(s, i) ==
    LET k == IF s[i] = "," THEN i + 1 ELSE i
        w == IF k > Len(s) THEN 0 ELSE BlanksStop(s, k)
        lower == toLowerCase(s)
    IN  IF w = 0 THEN 0
        ELSE IF MatchesAt(lower, w, <<"a", "n", "d", " ", "t", "h", "e", "n">>)
        THEN BlanksEnd(s, w + 8)
        ELSE IF MatchesAt(lower, w, <<"t", "h", "e", "n">>)
        THEN BlanksEnd(s, w + 4)
        ELSE 0

\* SPLITTER_REGEX = /\.(?:\s|$)|;|(?:,?\s*(?:and then|then)\s+)/i tried at
\* i: the index behind the match, 0 when there is none
SplitterEnd(s, i) ==
    IF s[i] = "." /\ i < Len(s) /\ s[i + 1] \in Whitespace THEN i + 2
    ELSE IF s[i] = "." /\ i = Len(s) THEN i + 1
    ELSE IF s[i] = ";" THEN i + 1
    ELSE ThenEnd(s, i)

\* text.split(SPLITTER_REGEX): the pieces between the matches, found left
\* to right
RECURSIVE splitFrom(_, _, _)
splitFrom(text, start, i) ==
    IF i > Len(text) THEN <<SubSeq(text, start, Len(text))>>
    ELSE IF SplitterEnd(text, i) # 0
    THEN <<SubSeq(text, start, i - 1)>>
             \o splitFrom(text, SplitterEnd(text, i), SplitterEnd(text, i))
    ELSE splitFrom(text, start, i + 1)

splitIntoBullets(text) ==
    SelectSeq([i \in 1..Len(splitFrom(text, 1, 1)) |-> Trim(splitFrom(text, 1, 1)[i])],
              LAMBDA bullet : Len(bullet) > 0)

\* processText(speechText).bullets
processText(speechText) ==
    LET rawBullets == splitIntoBullets(speechText)
        cleaned == SelectSeq([i \in 1..Len(rawBullets) |-> cleanBullet(rawBullets[i])],
                             LAMBDA bullet : Len(bullet) > 0)
    IN  [i \in 1..Len(cleaned) |-> Dash \o cleaned[i]]

(***************************************************************************)
(* OpenAIService: fallbackSynthesis, the summary made without the          *)
(* summarizer.                                                             *)
(***************************************************************************)
\* the alternatives of /\b(um|uh|like|you know|so|and then)\b/gi in order
FillerWords ==
    <<<<"u", "m">>,
      <<"u", "h">>,
      <<"l", "i", "k", "e">>,
      <<"y", "o", "u", " ", "k", "n", "o", "w">>,
      <<"s", "o">>,
      <<"a", "n", "d", " ", "t", "h", "e", "n">>>>

\* the length of the filler the expression matches at i, 0 for no match:
\* the first alternative that stands there between two word boundaries
FillerAt(s, i) ==
    IF i > 1 /\ s[i - 1] \in WordChars THEN 0
    ELSE LET fits == {k \in 1..Len(FillerWords) :
                         /\ MatchesAt(toLowerCase(s), i, FillerWords[k])
                         /\ (i + Len(FillerWords[k]) > Len(s)
                                \/ s[i + Len(FillerWords[k])] \notin WordChars)}
         IN  IF fits = {} THEN 0 ELSE Len(FillerWords[FirstIndex(fits)])

\* spokenText.replace(/\b(um|uh|like|you know|so|and then)\b/gi, '') from i on
RECURSIVE removeFillers(_, _)
removeFillers(s, i) ==
    IF i > Len(s) THEN <<>>
    ELSE IF FillerAt(s, i) # 0 THEN removeFillers(s, i + FillerAt(s, i))
    ELSE <<s[i]>> \o removeFillers(s, i + 1)

\* .replace(/\s+/g, ' ') from i on
RECURSIVE collapseBlanks(_, _)
collapseBlanks(s, i) ==
    IF i > Len(s) THEN <<>>
    ELSE IF s[i] \notin Whitespace THEN <<s[i]>> \o collapseBlanks(s, i + 1)
    ELSE <<" ">> \o collapseBlanks(s, IF BlanksStop(s, i) = 0 THEN Len(s) + 1
                                      ELSE BlanksStop(s, i))

SentenceEnds == {".", "!", "?"}

\* cleaned.split(/[.!?]+/)
RECURSIVE splitSentences(_)
splitSentences(s) ==
    LET ends == {i \in 1..Len(s) : s[i] \in SentenceEnds}
        words == {i \in 1..Len(s) : i > FirstIndex(ends) /\ s[i] \notin SentenceEnds}
    IN  IF ends = {} THEN <<s>>
        ELSE <<SubSeq(s, 1, FirstIndex(ends) - 1)>>
                 \o splitSentences(IF words = {} THEN <<>>
                                   ELSE SubSeq(s, FirstIndex(words), Len(s)))

\* the alternatives of /^(I|I'm|I was|I went|I did)\s+/i in order
SentencePrefixes ==
    <<<<"i">>, <<"i", "'", "m">>, <<"i", " ", "w", "a", "s">>, <<"i", " ", "w", "e", "n", "t">>, <<"i", " ", "d", "i", "d">>>>

\* sentence.replace(/^(I|I'm|I was|I went|I did)\s+/i, '')
withoutPrefix(sentence) ==
    LET fits == {k \in 1..Len(SentencePrefixes) :
                    /\ MatchesAt(toLowerCase(sentence), 1, SentencePrefixes[k])
                    /\ Len(SentencePrefixes[k]) < Len(sentence)
                    /\ sentence[Len(SentencePrefixes[k]) + 1] \in Whitespace}
        stop == BlanksStop(sentence, Len(SentencePrefixes[FirstIndex(fits)]) + 1)
    IN  IF fits = {} THEN sentence
        ELSE IF stop = 0 THEN <<>>
        ELSE SubSeq(sentence, stop, Len(sentence))

\* the indexes of the blanks of a text: split(' ') cuts at each of them
Blanks(s) == {i \in 1..Len(s) : s[i] = " "}

\* capitalized.split(' ').length
WordCount(s) == Cardinality(Blanks(s)) + 1

\* words.slice(0, 15).join(' ') when there are more than 15 words
trimWords(capitalized) ==
    IF WordCount(capitalized) > 15
    THEN SubSeq(capitalized, 1,
                (CHOOSE i \in Blanks(capitalized) :
                     Cardinality({j \in Blanks(capitalized) : j < i}) = 14) - 1)
    ELSE capitalized

\* the cleaned text of fallbackSynthesis
cleanedText(spokenText) == Trim(collapseBlanks(removeFillers(spokenText, 1), 1))

\* the sentences that are kept, each made an event
sentenceEvents(sentences) ==
    LET kept == SelectSeq([i \in 1..Len(sentences) |-> Trim(sentences[i])],
                          LAMBDA sentence : Len(sentence) > 5)
    IN  [i \in 1..Len(kept) |-> trimWords(capitalize(withoutPrefix(kept[i])))]

\* mutant: the events are not cut to five
fallbackSynthesis_NoLimit(spokenText) ==
    SelectSeq(sentenceEvents(splitSentences(cleanedText(spokenText))),
              LAMBDA event : WordCount(event) >= 3)

\* fallbackSynthesis(spokenText).events
fallbackSynthesis(spokenText) ==
    LET events == SelectSeq(sentenceEvents(splitSentences(cleanedText(spokenText))),
                            LAMBDA event : WordCount(event) >= 3)
    IN  SubSeq(events, 1, IF Len(events) > 5 THEN 5 ELSE Len(events))

(***************************************************************************)
(* Inputs.                                                                 *)
(***************************************************************************)
Day0 == [y |-> 2025, m |-> 9, d |-> 21]
LastDay == DayPlus(Day0, MaxTicks)

D1 == <<"9", ".", "2", "1", ".", "2", "0", "2", "5">>
D2 == <<"9", ".", "2", "0", ".", "2", "0", "2", "5">>
D3 == <<"9", ".", "2", "2", ".", "2", "0", "2", "5">>
EntryA == <<"-", " ", "a">>
EntryX == <<"-", " ", "x">>
EntryY == <<" ", "-", " ", "y", " ">>
Note == <<"n">>
Blank == <<>>
Text == <<"t">>
SlashDate == <<"9", "/", "2", "0">>

SeqsUpTo(S, n) == UNION {[1..k -> S] : k \in 0..n}

RECURSIVE Flatten(_)
Flatten(ss) == IF Len(ss) = 0 THEN <<>> ELSE ss[1] \o Flatten(Tail(ss))

\* a header line typed with blanks around it, for the day after Day0
PaddedD3 == <<" ">> \o D3 \o <<" ">>
DocLines == {D1, D2, PaddedD3, EntryA, Note, Blank}
InitDocs == {Join(ls) : ls \in SeqsUpTo(DocLines, MaxDocLines)}

\* a payload as synthesizeText builds it: date line, then its entries, group after group
DateLines == {D1, D2}
Blocks == {<<h>> \o es : h \in DateLines, es \in SeqsUpTo({EntryX}, MaxEntries)}
GroupedPayloads == {Flatten(bs) : bs \in SeqsUpTo(Blocks, MaxGroups)}
\* payloads without date lines as processText builds them, and payloads with
\* stray items: a date expression that is no key, an entry before the first
\* date line, the blank item synthesizeText puts between two groups
StrayPayloads ==
    { <<EntryX>>,
      <<EntryY, Text>>,
      <<SlashDate, EntryX>>,
      <<EntryX, D1, EntryX>>,
      <<D1, EntryX, SlashDate, EntryX>>,
      <<D1, EntryX, Blank, D2, EntryY>> }
Payloads == GroupedPayloads \cup StrayPayloads

DateSets == {{}, {D1}, {D1, D2}}

\* what the summarizer may put in a group's date: nothing, a number, the
\* empty string, a key, a key behind a blank, the forms normalizeDateFormat
\* knows, and an expression it does not know
PaddedD2 == <<" ">> \o D2
ZeroSlashDate == <<"0", "9", "/", "2", "0", "/", "2", "0", "2", "5">>
TodayWord == <<"T", "o", "d", "a", "y">>
YesterdayWord == <<"y", "e", "s", "t", "e", "r", "d", "a", "y">>
LastSunday == <<"l", "a", "s", "t", " ", "S", "u", "n", "d", "a", "y">>
MonthAndDay == <<"S", "e", "p", " ", "1", "9", "t", "h">>
DottedMonthDay == <<"S", "e", "p", ".", " ", "1", "9">>
NextWeek == <<"n", "e", "x", "t", " ", "w", "e", "e", "k">>
RawDates == {Undefined, ANumber, <<>>, D2, PaddedD2, ZeroSlashDate, SlashDate, TodayWord,
             YesterdayWord, LastSunday, MonthAndDay, NextWeek}
EventP == <<"p">>
EventQ == <<"q">>
RawEvents == {[isArray |-> TRUE, items |-> <<EventP>>],
              [isArray |-> TRUE, items |-> <<ANumber, <<" ">>, EventQ>>],
              [isArray |-> TRUE, items |-> <<>>],
              [isArray |-> FALSE, items |-> <<>>]}
RawSections == [date : RawDates, events : RawEvents, found : {TRUE}]
Responses ==
    [isArray : {TRUE}, dateSections : SeqsUpTo(RawSections, MaxSections)]
        \cup {[isArray |-> FALSE, dateSections |-> <<>>]}

\* what datePattern finds in a spoken text
DateMatches == {SlashDate, YesterdayWord, LastSunday, DottedMonthDay}
FallbackEvents == {<<>>, <<EventP>>}
FallbackSections ==
    [date : DateMatches, found : BOOLEAN,
     events : {[isArray |-> TRUE, items |-> ev] : ev \in FallbackEvents}]

\* date expressions handed to normalizeDateFormat: the forms it knows, the
\* seven day names bare and behind "last ", and expressions around them
ZeroKey == <<"0", "9", ".", "2", "0", ".", "2", "0", "2", "5">>
MixedDate == <<"9", "/", "2", "0", "-", "2", "0", "2", "5">>
LongMonthDay == <<"S", "e", "p", "t", "e", "m", "b", "e", "r", " ", "3", " ", "2", "0", "2", "4">>
MonthYearOnly == <<"S", "e", "p", " ", "2", "0", "2", "5">>
NotToday == <<"n", "o", "t", " ", "t", "o", "d", "a", "y">>
Someday == <<"s", "o", "m", "e", "d", "a", "y">>
LastWord == <<"l", "a", "s", "t", " ">>
BareDayNames == {dayNames[k] : k \in 1..7}
LastDayNames == {LastWord \o dayNames[k] : k \in 1..7}
DateExprs ==
    RawDates \cup BareDayNames \cup LastDayNames
        \cup {ZeroKey, MixedDate, LongMonthDay, MonthYearOnly, DottedMonthDay, NotToday,
              Someday}

\* the days the normalizer is called on: a week from Day0 on, and the days
\* around the end of February and the end of the year
FirstDays == {Day0, [y |-> 2024, m |-> 2, d |-> 28], [y |-> 2025, m |-> 2, d |-> 28],
              [y |-> 2024, m |-> 12, d |-> 29]}
DaysBeforeLast == {DayPlus(t, k) : t \in FirstDays, k \in 0..(MaxDaysOn - 1)}

\* the pieces splitIntoBullets hands to cleanBullet: none, one or two spoken
\* filler phrases, some words, and a full stop or none
FillerPhrases ==
    { <<"I", " ">>,
      <<"I", "'", "m", " ">>,
      <<"I", " ", "w", "e", "n", "t", " ", "a", "n", "d", " ">>,
      <<"I", " ", "h", "a", "d", " ">>,
      <<"I", " ", "w", "a", "s", " ">>,
      <<"I", " ", "d", "i", "d", " ">>,
      <<"t", "h", "e", "n", " ", "I", " ">>,
      <<"a", "n", "d", " ", "I", " ">>,
      <<"s", "o", " ", "I", " ">>,
      <<"a", "f", "t", "e", "r", " ", "t", "h", "a", "t", " ", "I", " ">> }
SpokenWords == {<<"w", "e", "n", "t", " ", "h", "o", "m", "e">>, <<"i", " ">>}
Pieces ==
    {first \o second \o words \o stop :
        first \in FillerPhrases \cup {<<>>}, second \in FillerPhrases \cup {<<>>},
        words \in SpokenWords, stop \in {<<>>, <<".">>}}

\* spoken texts without a date expression: what is said before the first
\* one, and what is said behind one up to the next
ThreeSentences == <<"g", "o", " ", "t", "o", " ", "b", "e", "d", ".", " ", "e", "a", "t", " ", "a", " ", "p", "i", "e", ".", " ", "r", "e", "a", "d", " ", "a", " ", "b", "i", "t", ".">>
SixSentences == ThreeSentences \o <<" ">> \o ThreeSentences
LongSentence == <<"u", "m", " ", "w", "e", " ", "w", " ", "w", " ", "w", " ", "w", " ", "w", " ", "w", " ", "w", " ", "w", " ", "w", " ", "w", " ", "w", " ", "w", " ", "w", " ", "w", " ", "w", " ", "w">>
ShortSentences == <<"I", " ", "w", "a", "s", " ", "o", "k", ".", " ", "s", "o", " ", "t", "i", "r", "e", "d", "!">>
LeadTexts == {<<>>, SixSentences, ShortSentences}
TextsForDate == {<<>>, ThreeSentences, LongSentence, ShortSentences}
SpokenDates == {SlashDate, YesterdayWord, TodayWord}

\* the date expressions found in a spoken text, each one once, with the text
\* behind each
SpokenMatches ==
    {ms \in SeqsUpTo([date : SpokenDates, text : TextsForDate], MaxMatches) :
        \A i, j \in 1..Len(ms) : ms[i].date = ms[j].date => i = j}

\* the spoken text: the lead, then each date expression and its text
RECURSIVE spokenTextOf(_, _)
spokenTextOf(lead, matches) ==
    IF Len(matches) = 0 THEN lead
    ELSE spokenTextOf(lead \o <<" ">> \o matches[1].date \o <<" ">> \o matches[1].text,
                      Tail(matches))

NoResponse == [fn |-> "none", isArray |-> FALSE, dateSections |-> <<>>, whole |-> <<>>]

NoCall == [fn |-> "none", content |-> <<>>, bullets |-> <<>>, dates |-> {},
           at |-> Day0, result |-> <<>>, affected |-> <<>>, existing |-> <<>>,
           dateStr |-> <<>>, preview |-> <<>>, bullet |-> <<>>]

\* no pollTranscription call in progress
NoPoll == [stage |-> "idle", maxAttempts |-> 0, attempt |-> 0, requests |-> 0,
           seen |-> <<>>, status |-> "none"]

\* the button before its first render: its state, its refs (the recognition
\* in recognitionRef, one it no longer refers to that still runs, the
\* recorder), and the state the key handlers of the mount effect hold
NoSpeech == [useAssemblyAI |-> FALSE, check |-> "done", assemblyAIAvailable |-> FALSE,
             recognition |-> "null", orphan |-> FALSE, mediaRecorder |-> "null",
             starting |-> FALSE, isListening |-> FALSE, isMouseDown |-> FALSE,
             keyListening |-> FALSE, keyAvailable |-> FALSE, stopRequested |-> FALSE]

\* the page's state around one request: what the handler's render held as
\* the document, and pendingBullets, affectedDates, contentToBeOverwritten
NoRequest == [stage |-> "idle", closure |-> <<>>, pendingBullets |-> <<>>,
              affectedDates |-> <<>>, contentToBeOverwritten |-> <<>>]

(***************************************************************************)
(* The engine called again and again on the document it returned, one      *)
(* call at a time.                                                         *)
(***************************************************************************)
Init ==
    /\ journalContent \in InitDocs
    /\ now = Day0
    /\ call = NoCall
    /\ raw = NoResponse
    /\ sections = <<>>
    /\ storage = Null
    /\ effects = <<>>
    /\ request = NoRequest
    /\ poll = NoPoll
    /\ speech = NoSpeech

Idle == call.fn = "none" /\ Len(Split(journalContent)) <= MaxDocLines

Append_(newBullets) ==
    /\ Idle
    /\ journalContent' = appendToJournal(journalContent, newBullets, now)
    /\ call' = [NoCall EXCEPT !.fn = "append", !.content = journalContent,
                              !.bullets = newBullets, !.at = now,
                              !.result = journalContent']
    /\ UNCHANGED <<now, raw, sections, storage, effects, request, poll, speech>>

Overwrite(newBullets, datesToOverwrite) ==
    /\ Idle
    /\ journalContent' = overwriteJournal(journalContent, newBullets, datesToOverwrite, now)
    /\ call' = [NoCall EXCEPT !.fn = "overwrite", !.content = journalContent,
                              !.bullets = newBullets, !.dates = datesToOverwrite,
                              !.at = now, !.result = journalContent']
    /\ UNCHANGED <<now, raw, sections, storage, effects, request, poll, speech>>

\* what the confirmation dialog shows for the dates found in the document
contentPreview(journal, existingDates) ==
    IF Len(existingDates) > 0 THEN getContentToBeOverwritten(journal, existingDates)
    ELSE <<>>

Detected(newBullets, affected, existingDates) ==
    call' = [NoCall EXCEPT !.fn = "detect", !.content = journalContent,
                           !.bullets = newBullets, !.at = now,
                           !.affected = affected, !.existing = existingDates,
                           !.preview = contentPreview(journalContent, existingDates)]

Detect(newBullets) ==
    /\ Idle
    /\ LET affected == getAffectedDates(newBullets, now)
       IN  Detected(newBullets, affected, getExistingDates(journalContent, affected))
    /\ UNCHANGED <<journalContent, now, raw, sections, storage, effects, request, poll, speech>>

\* the caller takes the returned document as the current one
Return ==
    /\ call.fn # "none"
    /\ call' = NoCall
    /\ UNCHANGED <<journalContent, now, raw, sections, storage, effects, request, poll, speech>>

\* midnight passes between two calls
Tick ==
    /\ call.fn = "none"
    /\ raw.fn = "none"
    /\ now # LastDay
    /\ now' = NextDay(now)
    /\ UNCHANGED <<journalContent, call, raw, sections, storage, effects, request, poll, speech>>

Next ==
    \/ \E b \in Payloads : Append_(b)
    \/ \E b \in Payloads : \E ds \in DateSets : Overwrite(b, ds)
    \/ \E b \in Payloads : Detect(b)
    \/ Return
    \/ Tick

Spec == Init /\ [][Next]_vars

(***************************************************************************)
(* The summarizer boundary: one response at a time is turned into date     *)
(* sections, by synthesizeKeyEventsWithDates or, without the service, by   *)
(* fallbackMultiDateSynthesis.                                             *)
(***************************************************************************)
InitSummarizer ==
    /\ journalContent = <<>>
    /\ now = Day0
    /\ call = NoCall
    /\ raw = NoResponse
    /\ sections = <<>>
    /\ storage = Null
    /\ effects = <<>>
    /\ request = NoRequest
    /\ poll = NoPoll
    /\ speech = NoSpeech

Synthesize(result) ==
    /\ raw.fn = "none"
    /\ raw' = [fn |-> "synthesize", isArray |-> result.isArray,
               dateSections |-> result.dateSections, whole |-> <<>>]
    /\ sections' = synthesizeKeyEventsWithDates(result, now)
    /\ UNCHANGED <<journalContent, now, call, storage, effects, request, poll, speech>>

FallbackSynthesize(dateMatches, whole) ==
    /\ raw.fn = "none"
    /\ raw' = [fn |-> "fallback", isArray |-> TRUE, dateSections |-> dateMatches,
               whole |-> whole]
    /\ sections' = fallbackMultiDateSynthesis(dateMatches, whole, now)
    /\ UNCHANGED <<journalContent, now, call, storage, effects, request, poll, speech>>

\* the caller takes the date sections
Deliver ==
    /\ raw.fn # "none"
    /\ raw' = NoResponse
    /\ sections' = <<>>
    /\ UNCHANGED <<journalContent, now, call, storage, effects, request, poll, speech>>

NextSummarizer ==
    \/ \E result \in Responses : Synthesize(result)
    \/ \E dateMatches \in SeqsUpTo(FallbackSections, MaxSections) :
           \E whole \in FallbackEvents : FallbackSynthesize(dateMatches, whole)
    \/ Deliver
    \/ Tick

SpecSummarizer == InitSummarizer /\ [][NextSummarizer]_vars

(***************************************************************************)
(* The normalizer alone: normalizeDateFormat called on one date expression *)
(* at a time, on one day after another.                                    *)
(***************************************************************************)
InitNormalizer ==
    /\ journalContent = <<>>
    /\ now \in FirstDays
    /\ call = NoCall
    /\ raw = NoResponse
    /\ sections = <<>>
    /\ storage = Null
    /\ effects = <<>>
    /\ request = NoRequest
    /\ poll = NoPoll
    /\ speech = NoSpeech

Normalize(dateStr) ==
    /\ call.fn = "none"
    /\ call' = [NoCall EXCEPT !.fn = "normalize", !.dateStr = dateStr, !.at = now,
                              !.result = normalizeDateFormat(dateStr, now)]
    /\ UNCHANGED <<journalContent, now, raw, sections, storage, effects, request, poll, speech>>

\* midnight passes between two calls of the normalizer
NextMidnight ==
    /\ call.fn = "none"
    /\ now \in DaysBeforeLast
    /\ now' = NextDay(now)
    /\ UNCHANGED <<journalContent, call, raw, sections, storage, effects, request, poll, speech>>

NextNormalizer ==
    \/ \E dateStr \in DateExprs : Normalize(dateStr)
    \/ Return
    \/ NextMidnight

SpecNormalizer == InitNormalizer /\ [][NextNormalizer]_vars

(***************************************************************************)
(* The Journal page: the document as React state, loaded from and saved to *)
(* localStorage by two effects, and changed by the page's handlers.  An    *)
(* effect runs with the content of the render that scheduled it, and the   *)
(* effects of a render have all run before the next handler does.          *)
(***************************************************************************)
\* what localStorage holds when the page is opened: no item, or a document
StoredDocs == {Null, <<>>, Join(<<D1, EntryA>>), Join(<<D2, EntryA, Note>>)}

\* what the user types into the document
EditedDocs == {<<>>, Note, Join(<<D1, Note>>), Join(<<D2, EntryA>>), Join(<<D1, EntryX>>)}

\* the payloads the page hands to the engine
PagePayloads == StrayPayloads \cup {p \in GroupedPayloads : Len(p) <= 3}

\* JournalStorage.load: localStorage.getItem(KEY) || ''
load(stored) == IF stored = Null THEN <<>> ELSE stored

saveEffect(content) == [fn |-> "save", content |-> content]
loadEffect == [fn |-> "load", content |-> <<>>]

\* setJournalContent: a new value renders the page again, and the render
\* schedules the save effect behind the effects still to run
setJournalContent(content, pending) ==
    /\ journalContent' = content
    /\ effects' = IF content = journalContent THEN pending
                  ELSE Append(pending, saveEffect(content))

InitPage ==
    /\ journalContent = <<>>
    /\ now = Day0
    /\ call = NoCall
    /\ raw = NoResponse
    /\ sections = <<>>
    /\ storage \in StoredDocs
    /\ effects = <<loadEffect, saveEffect(<<>>)>>
    /\ request = [NoRequest EXCEPT !.stage = "mounting"]
    /\ poll = NoPoll
    /\ speech = NoSpeech

\* the page is mounted once the effects of its first renders have run
Mounted(remaining) ==
    request' = IF request.stage = "mounting" /\ remaining = <<>>
               THEN NoRequest ELSE request

LoadEffect ==
    /\ effects # <<>>
    /\ Head(effects).fn = "load"
    /\ setJournalContent(load(storage), Tail(effects))
    /\ UNCHANGED <<now, call, raw, sections, storage, request, poll, speech>>

\* JournalStorage.save when setItem stores the content
SaveEffect ==
    /\ effects # <<>>
    /\ Head(effects).fn = "save"
    /\ storage' = Head(effects).content
    /\ effects' = Tail(effects)
    /\ Mounted(Tail(effects))
    /\ UNCHANGED <<journalContent, now, call, raw, sections, poll, speech>>

\* JournalStorage.save when setItem throws: the catch logs the error
SaveEffectThrows ==
    /\ effects # <<>>
    /\ Head(effects).fn = "save"
    /\ effects' = Tail(effects)
    /\ Mounted(Tail(effects))
    /\ UNCHANGED <<journalContent, now, call, raw, sections, storage, poll, speech>>

PageIdle == effects = <<>> /\ Len(Split(journalContent)) <= MaxDocLines

\* the dates of the payload that have a section in the document the
\* handler's render holds
Conflicts(content, newBullets) ==
    getExistingDates(content, getAffectedDates(newBullets, now))

Appended(content, newBullets, updatedContent) ==
    /\ setJournalContent(updatedContent, <<>>)
    /\ call' = [NoCall EXCEPT !.fn = "append", !.content = content,
                              !.bullets = newBullets, !.at = now,
                              !.result = updatedContent]

Overwritten(content, newBullets, datesToOverwrite, updatedContent) ==
    /\ setJournalContent(updatedContent, <<>>)
    /\ call' = [NoCall EXCEPT !.fn = "overwrite", !.content = content,
                              !.bullets = newBullets, !.dates = datesToOverwrite,
                              !.at = now, !.result = updatedContent]

\* handleProcessReviewedText up to its await: the request is sent, and the
\* rest of the handler keeps the journalContent of the render it was made in
handleProcessReviewedText ==
    /\ PageIdle
    /\ request.stage = "idle"
    /\ request' = [NoRequest EXCEPT !.stage = "waiting", !.closure = journalContent]
    /\ UNCHANGED <<journalContent, now, call, raw, sections, storage, effects, poll, speech>>

processWithoutConflicts(content, newBullets) ==
    /\ Appended(content, newBullets, appendToJournal(content, newBullets, now))
    /\ request' = NoRequest

\* the confirmation dialog is shown for the dates found in the document
showOverwriteConfirmation(content, newBullets, existingDates) ==
    /\ request' = [NoRequest EXCEPT
                      !.stage = "dialog",
                      !.pendingBullets = newBullets,
                      !.affectedDates = existingDates,
                      !.contentToBeOverwritten =
                          getContentToBeOverwritten(content, existingDates)]
    /\ call' = [NoCall EXCEPT !.fn = "detect", !.content = content,
                              !.bullets = newBullets, !.at = now,
                              !.existing = existingDates]
    /\ UNCHANGED <<journalContent, effects>>

\* handleProcessReviewedText from its await on: synthesizeText has returned
\* the payload
synthesizeTextReturns(newBullets) ==
    /\ PageIdle
    /\ request.stage = "waiting"
    /\ IF Conflicts(request.closure, newBullets) # <<>>
       THEN showOverwriteConfirmation(request.closure, newBullets,
                                      Conflicts(request.closure, newBullets))
       ELSE processWithoutConflicts(request.closure, newBullets)
    /\ UNCHANGED <<now, raw, sections, storage, poll, speech>>

\* the Overwrite button is enabled while a date is selected
handleOverwriteConfirm(datesToOverwrite) ==
    /\ PageIdle
    /\ request.stage = "dialog"
    /\ datesToOverwrite # {}
    /\ \A date \in datesToOverwrite : InSeq(date, request.affectedDates)
    /\ IF datesToOverwrite = {}
       THEN Appended(journalContent, request.pendingBullets,
                     appendToJournal(journalContent, request.pendingBullets, now))
       ELSE Overwritten(journalContent, request.pendingBullets, datesToOverwrite,
                        overwriteJournal(journalContent, request.pendingBullets,
                                         datesToOverwrite, now))
    /\ request' = NoRequest
    /\ UNCHANGED <<now, raw, sections, storage, poll, speech>>

handleOverwriteCancel ==
    /\ PageIdle
    /\ request.stage = "dialog"
    /\ Appended(journalContent, request.pendingBullets,
                appendToJournal(journalContent, request.pendingBullets, now))
    /\ request' = NoRequest
    /\ UNCHANGED <<now, raw, sections, storage, poll, speech>>

handleClearJournal ==
    /\ PageIdle
    /\ setJournalContent(<<>>, <<>>)
    /\ storage' = Null
    /\ call' = NoCall
    /\ UNCHANGED <<now, raw, sections, request, poll, speech>>

handleRefresh ==
    /\ PageIdle
    /\ setJournalContent(load(storage), <<>>)
    /\ call' = NoCall
    /\ UNCHANGED <<now, raw, sections, storage, request, poll, speech>>

onContentChange(content) ==
    /\ PageIdle
    /\ setJournalContent(content, <<>>)
    /\ call' = NoCall
    /\ UNCHANGED <<now, raw, sections, storage, request, poll, speech>>

NextPage ==
    \/ LoadEffect
    \/ SaveEffect
    \/ SaveEffectThrows
    \/ handleProcessReviewedText
    \/ \E newBullets \in PagePayloads : synthesizeTextReturns(newBullets)
    \/ \E datesToOverwrite \in DateSets : handleOverwriteConfirm(datesToOverwrite)
    \/ handleOverwriteCancel
    \/ handleClearJournal
    \/ handleRefresh
    \/ \E content \in EditedDocs : onContentChange(content)

SpecPage == InitPage /\ [][NextPage]_vars

(***************************************************************************)
(* The bullet cleaner alone: cleanBullet called on one piece at a time.    *)
(***************************************************************************)
InitCleaner ==
    /\ journalContent = <<>>
    /\ now = Day0
    /\ call = NoCall
    /\ raw = NoResponse
    /\ sections = <<>>
    /\ storage = Null
    /\ effects = <<>>
    /\ request = NoRequest
    /\ poll = NoPoll
    /\ speech = NoSpeech

CleanBullet(bullet) ==
    /\ call.fn = "none"
    /\ call' = [NoCall EXCEPT !.fn = "clean", !.bullet = bullet,
                              !.result = cleanBullet(bullet)]
    /\ UNCHANGED <<journalContent, now, raw, sections, storage, effects, request, poll, speech>>

NextCleaner ==
    \/ \E bullet \in Pieces : CleanBullet(bullet)
    \/ Return

SpecCleaner == InitCleaner /\ [][NextCleaner]_vars

(***************************************************************************)
(* processText alone: an utterance split into pieces, each piece cleaned.  *)
(***************************************************************************)
MaxTokens == 3

\* what an utterance is made of: words, marks, and what the splitter looks for
Tokens ==
    { <<"h", "i">>, <<"g", "o">>, <<"I", " ">>, <<"!">>, <<" ", "?">>, <<".", " ">>,
      <<";">>, <<",", " ", "a", "n", "d", " ", "t", "h", "e", "n", " ">>,
      <<" ", "T", "h", "e", "n", " ">> }

Utterances == {Flatten(ts) : ts \in SeqsUpTo(Tokens, MaxTokens)}

ProcessText(speechText) ==
    /\ call.fn = "none"
    /\ call' = [NoCall EXCEPT !.fn = "processText", !.content = speechText,
                              !.bullets = processText(speechText)]
    /\ UNCHANGED <<journalContent, now, raw, sections, storage, effects, request, poll, speech>>

NextProcess ==
    \/ \E speechText \in Utterances : ProcessText(speechText)
    \/ Return

SpecProcess == InitCleaner /\ [][NextProcess]_vars

(***************************************************************************)
(* The fallback summarizer alone: fallbackMultiDateSynthesis on a spoken   *)
(* text, with fallbackSynthesis run on the text behind each date           *)
(* expression and on the whole text.                                       *)
(***************************************************************************)
\* what the loop over dateMatches works on: each match, found in the
\* remaining text, with the events of the text behind it
processedMatches(matches) ==
    [i \in 1..Len(matches) |->
        [date |-> matches[i].date, found |-> TRUE,
         events |-> [isArray |-> TRUE, items |-> fallbackSynthesis(matches[i].text)]]]

FallbackSpoken(lead, matches) ==
    /\ raw.fn = "none"
    /\ raw' = [fn |-> "fallback", isArray |-> TRUE,
               dateSections |-> processedMatches(matches),
               whole |-> spokenTextOf(lead, matches)]
    /\ sections' = fallbackMultiDateSynthesis(processedMatches(matches),
                       fallbackSynthesis(spokenTextOf(lead, matches)), now)
    /\ UNCHANGED <<journalContent, now, call, storage, effects, request, poll, speech>>

NextFallback ==
    \/ \E lead \in LeadTexts, matches \in SpokenMatches : FallbackSpoken(lead, matches)
    \/ Deliver

SpecFallback == InitSummarizer /\ [][NextFallback]_vars

(***************************************************************************)
(* Reading a document: header lines, sections, entries.                    *)
(***************************************************************************)
IsHeaderLine(line) == DateKeyRegexTest(Trim(line))
IsEntryLine(line) == StartsWith(Trim(line), Dash)

\* the keys of the header lines of a text, top to bottom
HeaderKeys(text) ==
    LET lines == Split(text)
        heads == SelectSeq(lines, IsHeaderLine)
    IN  [i \in 1..Len(heads) |-> Trim(heads[i])]

\* no key heads two sections
NoDuplicateHeader(text) ==
    LET keys == HeaderKeys(text)
    IN  \A i \in 1..Len(keys) : \A j \in 1..Len(keys) : keys[i] = keys[j] => i = j

Called(fn) == call.fn = fn
Grouped == hasMultipleDates(call.bullets)

(***************************************************************************)
(* C1: overwriteJournal(doc, payload, []) returns the same text, byte for  *)
(* byte, as appendToJournal(doc, payload), for every document and payload. *)
(***************************************************************************)
C1_OverwriteNothingIsAppend ==
    (Called("overwrite") /\ call.dates = {})
        => call.result = appendToJournal(call.content, call.bullets, call.at)

(***************************************************************************)
(* C2: after appendToJournal every newly added entry lies inside the       *)
(* section of its own date, after the first header line of that date and   *)
(* before the next header line; the date of an entry is the date line it   *)
(* follows in the payload, and today when the payload has no date line.    *)
(* Stated for documents in which no key heads two sections.                *)
(***************************************************************************)
\* a date written M/D or M-D, as the summarizer's normalization reads it
ShortDateRegexTest(s) == ShortDateMatch(s) # 0

IsDateLine(item) == IsHeaderLine(item) \/ ShortDateRegexTest(Trim(item))

\* the key an entry of the payload belongs to, <<>> when it has none
OwnDate(bullets, i, today) ==
    LET before == {k \in 1..(i - 1) : IsDateLine(bullets[k])}
        last == CHOOSE k \in before : \A j \in before : j <= k
    IN  IF \A k \in 1..Len(bullets) : ~IsDateLine(bullets[k]) THEN formatDateHeader(today)
        ELSE IF before = {} THEN <<>>
        ELSE IF IsHeaderLine(bullets[last]) THEN Trim(bullets[last])
        ELSE <<>>

\* the lines between the first header line of a key and the next header line
SectionBody(text, date) ==
    LET lines == Split(text)
        head == FirstIndex({i \in 1..Len(lines) : Trim(lines[i]) = date})
        heads == {k \in (head + 1)..Len(lines) : IsHeaderLine(lines[k])}
        end == IF heads = {} THEN Len(lines) + 1 ELSE FirstIndex(heads)
    IN  IF head = 0 THEN <<>> ELSE SubSeq(lines, head + 1, end - 1)

CountIn(entry, lines) == Cardinality({i \in 1..Len(lines) : Trim(lines[i]) = entry})

Filed(bullets, date, entry, today) ==
    Cardinality({i \in 1..Len(bullets) :
                    Trim(bullets[i]) = entry /\ OwnDate(bullets, i, today) = date})

EntriesArrive(content, bullets, result, today) ==
    \A i \in 1..Len(bullets) :
        LET date == OwnDate(bullets, i, today)
            entry == Trim(bullets[i])
        IN  (IsEntryLine(bullets[i]) /\ date # <<>>)
                => CountIn(entry, SectionBody(result, date))
                       >= CountIn(entry, SectionBody(content, date))
                              + Filed(bullets, date, entry, today)

C2_AppendedEntryInOwnSection ==
    (Called("append") /\ NoDuplicateHeader(call.content))
        => EntriesArrive(call.content, call.bullets, call.result, call.at)

(***************************************************************************)
(* C3 as claimed: appendToJournal deletes and alters nothing; the line     *)
(* sequence of the input document is a subsequence of the line sequence    *)
(* of the output.                                                          *)
(***************************************************************************)
\* the lines of a text; the empty text has none
Lines(text) == IF text = <<>> THEN <<>> ELSE Split(text)

RECURSIVE IsSubseqFrom(_, _, _, _)
IsSubseqFrom(a, i, b, j) ==
    IF i > Len(a) THEN TRUE
    ELSE IF j > Len(b) THEN FALSE
    ELSE IF a[i] = b[j] THEN IsSubseqFrom(a, i + 1, b, j + 1)
    ELSE IsSubseqFrom(a, i, b, j + 1)

IsSubseq(a, b) == IsSubseqFrom(a, 1, b, 1)

RECURSIVE KeepFirst(_)
KeepFirst(keys) ==
    IF Len(keys) = 0 THEN <<>>
    ELSE LET front == KeepFirst(SubSeq(keys, 1, Len(keys) - 1))
             last == keys[Len(keys)]
         IN  IF \E i \in 1..Len(front) : front[i] = last THEN front
             ELSE Append(front, last)

PayloadKeys(bullets, today) ==
    LET heads == SelectSeq(bullets, IsHeaderLine)
    IN  IF Len(bullets) = 0 THEN <<>>
        ELSE IF Len(heads) = 0 THEN <<formatDateHeader(today)>>
        ELSE KeepFirst([i \in 1..Len(heads) |-> Trim(heads[i])])

IsPrefix(a, b) == Len(a) <= Len(b) /\ SubSeq(b, 1, Len(a)) = a

AddedKeys(content, result) ==
    SubSeq(HeaderKeys(result), Len(HeaderKeys(content)) + 1, Len(HeaderKeys(result)))

HeaderBefore(bullets, i) ==
    LET before == {k \in 1..(i - 1) : IsHeaderLine(bullets[k])}
        last == CHOOSE k \in before : \A j \in before : j <= k
    IN  IF before = {} THEN <<>> ELSE Trim(bullets[last])

\* the entries the payload lists under a date line, as they are written into
\* the document; a payload without date lines is one group, dated today
GroupEntries(bullets, date, today) ==
    IF \A k \in 1..Len(bullets) : ~IsHeaderLine(bullets[k])
    THEN (IF date = formatDateHeader(today) THEN bullets ELSE <<>>)
    ELSE LET at == SelectSeq([i \in 1..Len(bullets) |-> i],
                             LAMBDA i : IsEntryLine(bullets[i])
                                            /\ HeaderBefore(bullets, i) = date)
         IN  [n \in 1..Len(at) |-> Trim(bullets[at[n]])]

InKeys(date, keys) == \E i \in 1..Len(keys) : keys[i] = date

OverwrittenDates ==
    {date \in call.dates :
        /\ InKeys(date, PayloadKeys(call.bullets, call.at))
        /\ hasDateHeader(call.content, date)}

HeaderIndexes(text) ==
    LET lines == Split(text)
    IN  SelectSeq([i \in 1..Len(lines) |-> i], LAMBDA i : IsHeaderLine(lines[i]))

\* the n-th section of a text: its header line and the lines up to the next
SectionAt(text, n) ==
    LET lines == Split(text)
        heads == HeaderIndexes(text)
        end == IF n < Len(heads) THEN heads[n + 1] - 1 ELSE Len(lines)
    IN  SubSeq(lines, heads[n], end)

\* the sections of the input no group of the payload names
UntouchedSections ==
    {n \in 1..Len(HeaderKeys(call.content)) :
        ~InKeys(HeaderKeys(call.content)[n], PayloadKeys(call.bullets, call.at))}

C6_OverwriteKeepsOtherSections ==
    Called("overwrite") =>
        \A n \in UntouchedSections :
            /\ n <= Len(HeaderKeys(call.result))
            /\ SectionAt(call.result, n) = SectionAt(call.content, n)

(***************************************************************************)
(* C7: if a payload contains a group whose date line is not a canonical    *)
(* M.D.YYYY key, appendToJournal and overwriteJournal return the input     *)
(* document unchanged: none of that group's entries is inserted under any  *)
(* date and no other group is applied.  (Both functions return the new     *)
(* text and nothing else; a failure can only show as the unchanged text.)  *)
(***************************************************************************)
HasNonCanonicalDateLine(bullets) ==
    \E i \in 1..Len(bullets) : IsDateLine(bullets[i]) /\ ~IsHeaderLine(bullets[i])

C7_NonCanonicalDateLeavesDocument ==
    ((Called("append") \/ Called("overwrite")) /\ HasNonCanonicalDateLine(call.bullets))
        => call.result = call.content

(***************************************************************************)
(* C9 as claimed: appendToJournal, overwriteJournal, getAffectedDates and  *)
(* getExistingDates are pure functions of their arguments: two calls with  *)
(* the same document text and the same payload return identical results,   *)
(* regardless of the current date at the time of each call.                *)
(***************************************************************************)
Days == {DayPlus(Day0, k) : k \in 0..MaxTicks}

\* the call in progress returns the same at every date
SameAtEveryDate ==
    \A t \in Days :
        /\ Called("append")
               => appendToJournal(call.content, call.bullets, t) = call.result
        /\ Called("overwrite")
               => overwriteJournal(call.content, call.bullets, call.dates, t) = call.result
        /\ Called("detect")
               => /\ getAffectedDates(call.bullets, t) = call.affected
                  /\ getExistingDates(call.content, getAffectedDates(call.bullets, t))
                         = call.existing

C9_ResultIndependentOfDate == SameAtEveryDate

(***************************************************************************)
(* C9 amended: two calls with the same document text and the same payload  *)
(* return identical results regardless of the current date when the        *)
(* payload has at least one canonical date header line; appendToJournal    *)
(* and overwriteJournal do so for the empty payload as well.  For a        *)
(* payload without header line the only affected date is the key of the    *)
(* current date, and getExistingDates depends on the date only through the *)
(* affected keys it is handed.                                             *)
(***************************************************************************)
C9_GroupedResultIndependentOfDate ==
    /\ Grouped => SameAtEveryDate
    /\ ((Called("append") \/ Called("overwrite")) /\ call.bullets = <<>>) => SameAtEveryDate
    /\ (Called("detect") /\ ~Grouped)
           => /\ call.affected = <<formatDateHeader(call.at)>>
              /\ call.existing = getExistingDates(call.content, call.affected)

\* a payload with header lines changed the document on the day after Day0,
\* when the document has a section for that day
C9_Witness ==
    /\ Called("append")
    /\ Grouped
    /\ call.at # Day0
    /\ hasDateHeader(call.content, formatDateHeader(call.at))
    /\ Len(Split(call.result)) > Len(Split(call.content))

(***************************************************************************)
(* C10: when the summarizer returns a phrase group, today's key is         *)
(* substituted only if the group's date is entirely missing; a group whose *)
(* date is present but fails to normalize is never filed under today.      *)
(* (A date section carries a date and events and nothing else, so the      *)
(* normalization failure has no per-group signal to show in.)              *)
(***************************************************************************)
\* the group hands its events on: it was taken up and has an event left
HandsOn(g) == g.found /\ filterEvents(g.events) # <<>>

\* the date is there, as text, and no form normalizeDateFormat knows
PresentUnparseable(g) ==
    /\ g.date \notin NonStrings
    /\ Len(Trim(g.date)) > 0
    /\ normalizeDateFormat(g.date, now) = Null

\* the date is not there, or it names today
MayGoToToday(g) ==
    \/ g.date \in NonStrings
    \/ g.date = <<>>
    \/ normalizeDateFormat(g.date, now) = formatDateHeader(now)

C10_UnparseableDateNotFiledToday ==
    (/\ raw.fn # "none"
     /\ \E i \in 1..Len(raw.dateSections) :
            HandsOn(raw.dateSections[i]) /\ PresentUnparseable(raw.dateSections[i])
     /\ \A i \in 1..Len(raw.dateSections) :
            HandsOn(raw.dateSections[i]) => ~MayGoToToday(raw.dateSections[i]))
        => \A k \in 1..Len(sections) : sections[k].date # formatDateHeader(now)

(***************************************************************************)
(* Claims about the normalizer.                                            *)
(***************************************************************************)
Normalized == call.fn = "normalize"

\* month or day of a key written with a leading zero
HasLeadingZero(key) ==
    \/ key[1] = "0"
    \/ \E i \in 1..(Len(key) - 1) :
          /\ key[i] = "."
          /\ \A j \in 1..(i - 1) : key[j] # "."
          /\ key[i + 1] = "0"

\* C11: every key normalizeDateFormat returns has month and day without
\* leading zeros, so one calendar date never comes back as two different keys
C11_KeysHaveNoLeadingZeros ==
    (Normalized /\ call.result # Null) => ~HasLeadingZero(call.result)

\* the seven forms of a date expression, read on the whole expression without
\* regard to case: a key, M/D/YYYY or M-D-YYYY, M/D or M-D, "today",
\* "yesterday", a day name with or without "last " before it, and a month
\* name or its first letters (three at least) with a day number, an optional
\* st/nd/rd/th and an optional year of four digits
OrdinalSuffixes == {<<>>, <<"s", "t">>, <<"n", "d">>, <<"r", "d">>, <<"t", "h">>}

MonthDayGrammar(lower) ==
    \E k \in 1..12, n \in 3..9, d \in 1..2, x \in OrdinalSuffixes, y \in {0, 5} :
        /\ n <= Len(monthNames[k])
        /\ Len(lower) = n + 1 + d + Len(x) + y
        /\ SubSeq(lower, 1, n) = SubSeq(monthNames[k], 1, n)
        /\ lower[n + 1] = " "
        /\ AllDigits(lower, n + 2, n + 1 + d)
        /\ SubSeq(lower, n + 2 + d, n + 1 + d + Len(x)) = x
        /\ y = 5 => /\ lower[Len(lower) - 4] = " "
                    /\ AllDigits(lower, Len(lower) - 3, Len(lower))

InGrammarLower(dateStr, lower) ==
    \/ DateKeyRegexTest(dateStr)
    \/ FullDateMatch(dateStr) # <<>>
    \/ ShortDateMatch(dateStr) # 0
    \/ lower = toLowerCase(TodayWord)
    \/ lower = toLowerCase(YesterdayWord)
    \/ lower \in BareDayNames \cup LastDayNames
    \/ MonthDayGrammar(lower)

InGrammar(dateStr) == InGrammarLower(dateStr, toLowerCase(dateStr))

\* C12: normalizeDateFormat returns a key for every expression in one of the
\* seven forms and null for every other expression
C12_KeyExactlyForRecognizedForms ==
    Normalized =>
        IF InGrammar(call.dateStr) THEN DateKeyRegexTest(call.result)
        ELSE call.result = Null

\* how many days before today the day named by dayNames[k] last fell,
\* today counted: 0 when it is today's day name, 1 to 6 otherwise
DaysSince(today, k) == (getDay(today) - (k - 1)) % 7

\* C13: a bare day name gives its most recent day counting today, 0 to 6
\* days back, and the same name behind "last " gives the day 7 days earlier
C13_DayNameCountsToday ==
    \A k \in 1..7 :
        /\ (Normalized /\ call.dateStr = dayNames[k])
              => call.result = formatDateHeader(DayMinus(call.at, DaysSince(call.at, k)))
        /\ (Normalized /\ call.dateStr = LastWord \o dayNames[k])
              => call.result = formatDateHeader(DayMinus(call.at, DaysSince(call.at, k) + 7))

\* the days of the year of t and of the year before it
DaysAround(t) ==
    {[y |-> y, m |-> m, d |-> d] : y \in {t.y - 1, t.y}, m \in 1..12, d \in 1..31}

\* C14: "yesterday" normalizes to the calendar day right before the day
\* "today" normalizes to, across the ends of months, of years and of February
C14_YesterdayPrecedesToday ==
    (Normalized /\ call.dateStr = YesterdayWord) =>
        \E t \in DaysAround(call.at) :
            /\ t.d <= DaysInMonth(t.y, t.m)
            /\ normalizeDateFormat(TodayWord, call.at) = formatDateHeader(NextDay(t))
            /\ call.result = formatDateHeader(t)

C14_Witness ==
    /\ Normalized
    /\ call.dateStr = YesterdayWord
    /\ call.at = [y |-> 2024, m |-> 3, d |-> 1]
    /\ call.result = <<"2", ".", "2", "9", ".", "2", "0", "2", "4">>

(***************************************************************************)
(* Claims about conflict detection.                                        *)
(***************************************************************************)
\* C15: getExistingDates returns the affected dates that head a section of
\* the document, in the order they have among the affected dates, and never
\* a date without a section
C15_ExistingAreAffectedWithSection ==
    Called("detect") =>
        call.existing = SelectSeq(call.affected, LAMBDA key : InKeys(key, HeaderKeys(call.content)))

C15_Witness ==
    /\ Called("detect")
    /\ call.affected = <<D1, D2>>
    /\ call.existing = <<D2>>
    /\ HeaderKeys(call.content) = <<D3, D2>>

\* the keys on the header lines of a payload
PayloadHeaderKeys(newBullets) ==
    {Trim(newBullets[i]) : i \in {k \in 1..Len(newBullets) : IsHeaderLine(newBullets[k])}}

\* C16: getAffectedDates returns each key that is on a header line of the
\* payload once and nothing else, and for a payload without a header line
\* the key of the day of the call alone
C16_AffectedAreThePayloadKeys ==
    Called("detect") =>
        IF PayloadHeaderKeys(call.bullets) = {}
        THEN call.affected = <<formatDateHeader(call.at)>>
        ELSE /\ {call.affected[i] : i \in 1..Len(call.affected)} = PayloadHeaderKeys(call.bullets)
             /\ \A i, j \in 1..Len(call.affected) : call.affected[i] = call.affected[j] => i = j

\* a payload with two groups of one date
C16_Witness ==
    /\ Called("detect")
    /\ Len(SelectSeq(call.bullets, IsHeaderLine)) = 2
    /\ call.affected = <<D2>>

\* a payload without a header line, on the day after Day0
C16_WitnessToday ==
    /\ Called("detect")
    /\ call.bullets # <<>>
    /\ call.at # Day0
    /\ call.affected = <<D3>>

\* the lines of a section as the preview shows them: trimmed, blank ones left out
NonBlankTrimmed(body) ==
    SelectSeq([i \in 1..Len(body) |-> Trim(body[i])], LAMBDA line : line # <<>>)

\* C17 as stated: the preview of a section that has a line starting with
\* "- " holds such lines only, and the preview of a section without one holds
\* all its lines that are not headers (read here as trimmed, blank ones aside)
C17_PreviewEntriesWhenAny ==
    Called("detect") =>
        \A n \in 1..Len(call.preview) :
            IF \E i \in 1..Len(SectionBody(call.content, call.preview[n].date)) :
                   IsEntryLine(SectionBody(call.content, call.preview[n].date)[i])
            THEN \A k \in 1..Len(call.preview[n].lines) :
                     StartsWith(call.preview[n].lines[k], Dash)
            ELSE call.preview[n].lines
                     = NonBlankTrimmed(SectionBody(call.content, call.preview[n].date))

\* C17, amended: the preview holds one list for each requested date that has
\* a section, and the list is the section's non-blank lines, trimmed, lines
\* starting with "- " and other lines alike
C17_PreviewNonBlankLines ==
    Called("detect") =>
        /\ [n \in 1..Len(call.preview) |-> call.preview[n].date] = call.existing
        /\ \A n \in 1..Len(call.preview) :
               call.preview[n].lines
                   = NonBlankTrimmed(SectionBody(call.content, call.preview[n].date))

C17_Witness ==
    /\ Called("detect")
    /\ Len(call.preview) = 1
    /\ call.preview[1].lines = <<Trim(EntryA), Trim(Note)>>

(***************************************************************************)
(* Claims about the Journal page.                                          *)
(***************************************************************************)
\* C18: after an append or an overwrite of the page, once the effects it
\* set off have run, localStorage holds the document the page holds
C18_StorageHoldsDocument ==
    (call.fn \in {"append", "overwrite"} /\ effects = <<>>) => load(storage) = journalContent

(***************************************************************************)
(* Claims about the bullet cleaner.                                        *)
(***************************************************************************)
\* a piece with the first pattern that matches it removed, no other
removeFirstPrefixAt(cleaned, n) ==
    IF n = 0 THEN cleaned ELSE removePrefix(cleaned, PREFIXES_TO_REMOVE[n])

removeFirstPrefix(cleaned) ==
    removeFirstPrefixAt(cleaned,
        FirstIndex({n \in 1..Len(PREFIXES_TO_REMOVE) : PrefixEnd(cleaned, PREFIXES_TO_REMOVE[n]) # 0}))

\* C19: cleanBullet removes the first pattern of the list that matches the
\* piece, once, and applies no other pattern to what remains
C19_OnePrefixRemoved ==
    Called("clean") =>
        call.result
            = Trim(removeTrailingPunctuation(capitalize(removeFirstPrefix(Trim(call.bullet)))))

(***************************************************************************)
(* Claims about the fallback summarizer.                                   *)
(***************************************************************************)
FallbackRan == raw.fn = "fallback"

\* the date a found date expression is filed under
FiledUnder(match, today) ==
    IF normalizeDateFormat(match.date, today) # Null
    THEN normalizeDateFormat(match.date, today)
    ELSE formatDateHeader(today)

\* how many of the date expressions found are filed under a date
MatchesFiledUnder(date) ==
    Cardinality({i \in 1..Len(raw.dateSections) :
                    raw.dateSections[i].found /\ FiledUnder(raw.dateSections[i], now) = date})

EntriesHaveThreeToFifteenWords ==
    \A n \in 1..Len(sections) : \A k \in 1..Len(sections[n].events) :
        /\ WordCount(sections[n].events[k]) >= 3
        /\ WordCount(sections[n].events[k]) <= 15

\* C20 as stated: every date section of the fallback summarizer holds at
\* most 5 entries, and every entry has 3 to 15 words
C20_SectionsHaveAtMostFiveEntries ==
    FallbackRan =>
        /\ \A n \in 1..Len(sections) : Len(sections[n].events) <= 5
        /\ EntriesHaveThreeToFifteenWords

\* C20, amended: every entry has 3 to 15 words, and a date section holds at
\* most 5 entries for each date expression of the text that is filed under
\* its date, at most 5 when there is no such expression
C20_FiveEntriesForEachExpression ==
    FallbackRan =>
        /\ \A n \in 1..Len(sections) :
               Len(sections[n].events)
                   <= 5 * (IF MatchesFiledUnder(sections[n].date) = 0 THEN 1
                           ELSE MatchesFiledUnder(sections[n].date))
        /\ EntriesHaveThreeToFifteenWords

\* two date expressions for one day, three events behind each
C20_Witness ==
    /\ FallbackRan
    /\ Len(sections) = 1
    /\ sections[1].date = D2
    /\ Len(sections[1].events) = 6

\* a text of six sentences without a date expression
C20_WitnessLimit ==
    /\ FallbackRan
    /\ raw.whole = SixSentences
    /\ Len(sections) = 1
    /\ Len(sections[1].events) = 5

(***************************************************************************)
(* Claims about documents in which a key heads more than one section.      *)
(***************************************************************************)
\* the sections of a text headed by a key, the first one left out, each as
\* its lines trimmed with the blank ones left out
LaterSections(text, key) ==
    LET ns == SelectSeq([n \in 1..Len(HeaderKeys(text)) |-> n],
                        LAMBDA n : HeaderKeys(text)[n] = key)
    IN  [i \in 1..(Len(ns) - 1) |-> NonBlankTrimmed(SectionAt(text, ns[i + 1]))]

HeadsTwice(text, key) ==
    Cardinality({n \in 1..Len(HeaderKeys(text)) : HeaderKeys(text)[n] = key}) >= 2

\* C21: when a key heads two or more sections of the document, an append or
\* an overwrite leaves the lines of every section with that key but the first
\* as they were, and the preview shows the first section only
C21_OnlyFirstSectionTouched ==
    \A key \in {D1, D2, D3} :
        /\ ((Called("append") \/ Called("overwrite")) /\ HeadsTwice(call.content, key))
              => LaterSections(call.result, key) = LaterSections(call.content, key)
        /\ (Called("detect") /\ HeadsTwice(call.content, key))
              => \A n \in 1..Len(call.preview) :
                     call.preview[n].date = key
                         => call.preview[n].lines
                                = NonBlankTrimmed(SectionBody(call.content, key))

(***************************************************************************)
(* Claims about the page's merge workflow.                                 *)
(***************************************************************************)
\* the entry lines of a text, trimmed, top to bottom
EntryLines(text) ==
    SelectSeq([i \in 1..Len(Lines(text)) |-> Trim(Lines(text)[i])],
              LAMBDA line : StartsWith(line, Dash))

Count(line, lines) == Cardinality({i \in 1..Len(lines) : lines[i] = line})

\* a step of the workflow that writes the merged document
MergeWritten == request.stage \in {"waiting", "dialog"} /\ request'.stage = "idle"

\* the entry line stands in the section of one of the dates
InSectionOf(line, text, dates) ==
    \E date \in dates : InSeq(line, NonBlankTrimmed(SectionBody(text, date)))

\* C22: a step of the merge workflow leaves the document with fewer copies
\* of an entry line only when it is a confirmed overwrite and the line stood
\* in the section of one of the selected dates; processing without
\* conflicts, cancelling and confirming other dates remove no entry line
C22_EntriesRemovedOnlyBySelectedOverwrite ==
    [][MergeWritten =>
          \A i \in 1..Len(EntryLines(journalContent)) :
              LET line == EntryLines(journalContent)[i]
              IN  Count(line, EntryLines(journalContent'))
                      < Count(line, EntryLines(journalContent))
                  => /\ call'.fn = "overwrite"
                     /\ InSectionOf(line, journalContent, call'.dates)]_vars

\* C23: the merge written when the summarization request returns is the
\* append of the payload to the document as it stands at that moment, so
\* that a change made while the request was in flight is kept
C23_MergeComputedFromLatestDocument ==
    [][(request.stage = "waiting" /\ request'.stage = "idle")
          => journalContent' = appendToJournal(journalContent, call'.bullets, now)]_vars

(***************************************************************************)
(* Claims about what an append writes.                                     *)
(***************************************************************************)
\* the entry lines among the lines of a payload, trimmed, in order
PayloadEntries(bullets) ==
    SelectSeq([i \in 1..Len(bullets) |-> Trim(bullets[i])],
              LAMBDA line : StartsWith(line, Dash))

\* C24: every entry line of the payload is in what appendToJournal returns:
\* the result has as many copies of it as the document and the payload
\* together, wherever the line stands among the payload's header lines
C24_EveryIncomingEntryWritten ==
    Called("append") =>
        \A i \in 1..Len(PayloadEntries(call.bullets)) :
            LET line == PayloadEntries(call.bullets)[i]
            IN  Count(line, EntryLines(call.result))
                    >= Count(line, EntryLines(call.content))
                           + Count(line, PayloadEntries(call.bullets))

\* the lines of the payload that stand under the date: all of them under
\* today when the payload has no header line, else those whose nearest
\* header line above is the date
GroupLines(bullets, date, today) ==
    IF ~hasMultipleDates(bullets)
    THEN IF date = formatDateHeader(today) THEN bullets ELSE <<>>
    ELSE LET under(i) ==
                 LET head == LastIndex({j \in 1..i : IsHeaderLine(bullets[j])})
                 IN  head # 0 /\ head # i /\ Trim(bullets[head]) = date
         IN  SelectSeq([i \in 1..Len(bullets) |-> IF under(i) THEN bullets[i] ELSE <<>>],
                       LAMBDA line : line # <<>>)

\* the lines of a text from line i down to the next blank line or the end
RunFrom(lines, i) ==
    LET blanks == {j \in i..Len(lines) : Trim(lines[j]) = <<>>}
        end == IF blanks = {} THEN Len(lines) + 1 ELSE FirstIndex(blanks)
    IN  SubSeq(lines, i, end - 1)

\* the section of the date was added behind the document's text: one blank
\* line, the header, and then the entries of the group, each from "- " on
NewSectionWellFormed(content, result, bullets, date, today) ==
    LET lines == Split(result)
        head == FirstIndex({i \in 1..Len(lines) : Trim(lines[i]) = date})
        run == RunFrom(lines, head + 1)
    IN  /\ head >= 3
        /\ lines[head] = date
        /\ lines[head - 1] = <<>>
        /\ Trim(lines[head - 2]) # <<>>
        /\ run = PayloadEntries(GroupLines(bullets, date, today))
        /\ \A i \in 1..Len(run) : StartsWith(run[i], Dash)

\* C25: when appendToJournal adds a section for a date the non-empty
\* document has no section for, the new header stands exactly one blank line
\* behind the text before it and the group's entries follow it directly,
\* each on a line that begins with "- "
C25_NewSectionBehindOneBlankLine ==
    (Called("append") /\ Trim(call.content) # <<>>) =>
        \A date \in {D1, D2, D3} :
            (~hasDateHeader(call.content, date) /\ hasDateHeader(call.result, date))
                => NewSectionWellFormed(call.content, call.result, call.bullets,
                                        date, call.at)

(***************************************************************************)
(* Claims about the page's storage and its confirmation dialog.            *)
(***************************************************************************)
\* C26: while the page mounts (its load effect and the save effects of its
\* first renders run), a stored journal that is not empty is not replaced
\* in storage by another value
C26_MountKeepsStoredJournal ==
    [][(request.stage = "mounting" /\ storage # Null /\ storage # <<>>)
          => storage' = storage]_vars

\* the entry lines the confirmation dialog shows for the date
PreviewEntries(preview, date) ==
    LET shown == SelectSeq(preview, LAMBDA item : item.date = date)
    IN  IF shown = <<>> THEN <<>>
        ELSE SelectSeq(shown[1].lines, LAMBDA line : StartsWith(line, Dash))

\* the entry lines of the section the overwrite of the date replaces
SectionEntries(text, date) ==
    SelectSeq(NonBlankTrimmed(SectionBody(text, date)),
              LAMBDA line : StartsWith(line, Dash))

\* C27: when an overwrite is confirmed, the entry lines of the section of
\* each selected date, which the overwrite discards, are the entry lines the
\* dialog showed for that date, whatever happened to the document between
\* the detection of the conflict and the confirmation
C27_DiscardedEntriesAreThePreviewed ==
    [][(request.stage = "dialog" /\ call'.fn = "overwrite")
          => \A date \in call'.dates :
                 SectionEntries(journalContent, date)
                     = PreviewEntries(request.contentToBeOverwritten, date)]_vars

(***************************************************************************)
(* Claims about processText.                                               *)
(***************************************************************************)
\* the texts of the entries from the n-th on are found in the utterance one
\* behind the other from pos on, the case of the letters aside
RECURSIVE FoundInOrder(_, _, _, _)
FoundInOrder(entries, n, text, pos) ==
    IF n > Len(entries) THEN TRUE
    ELSE LET body == toLowerCase(SubSeq(entries[n], 3, Len(entries[n])))
             hits == {i \in pos..Len(text) : MatchesAt(toLowerCase(text), i, body)}
         IN  /\ hits # {}
             /\ FoundInOrder(entries, n + 1, text, FirstIndex(hits) + Len(body))

\* C28: every entry of processText is "- " and a text that is not empty and
\* does not end with '.', '!' or '?', and the entries stand in the order of
\* the pieces of the utterance they were made from
C28_EntriesCleanAndInOrder ==
    Called("processText") =>
        /\ \A i \in 1..Len(call.bullets) :
               /\ StartsWith(call.bullets[i], Dash)
               /\ Len(call.bullets[i]) > 2
               /\ call.bullets[i][Len(call.bullets[i])] \notin {".", "!", "?"}
        /\ FoundInOrder(call.bullets, 1, call.content, 1)

(***************************************************************************)
(* AssemblyAIService.pollTranscription: one status request per turn of its *)
(* loop, until a response settles the call or the attempts are used up.    *)
(***************************************************************************)
MaxAttempts == 3

\* what a status request may come to: the status of the response read, a
\* response read without one of the four statuses, a response that is not
\* ok, and a fetch that throws
PollResponses == {"queued", "processing", "completed", "error", "other", "notOk", "throws"}

returned(p, status) == [p EXCEPT !.stage = "returned", !.status = status]

\* mutant: the call ends with the status read last when the loop runs out
pollTurn_ReturnsLastStatus(p, response) ==
    LET asked == [p EXCEPT !.requests = @ + 1, !.seen = Append(@, response)]
    IN  IF response = "completed" THEN returned(asked, "completed")
        ELSE IF response = "error" THEN returned(asked, "error")
        ELSE IF response \in {"notOk", "throws"}
        THEN IF p.attempt = p.maxAttempts - 1 THEN returned(asked, "error")
             ELSE [asked EXCEPT !.attempt = @ + 1]
        ELSE IF p.attempt + 1 < p.maxAttempts THEN [asked EXCEPT !.attempt = @ + 1]
             ELSE returned([asked EXCEPT !.attempt = @ + 1], response)

\* one turn of the loop for the response the fetch came to, from the request
\* to the next test of `attempt < maxAttempts`
pollTurn(p, response) ==
    LET asked == [p EXCEPT !.requests = @ + 1, !.seen = Append(@, response)]
    IN  IF response = "completed" THEN returned(asked, "completed")
        ELSE IF response = "error" THEN returned(asked, "error")
        ELSE IF response \in {"notOk", "throws"}
        THEN IF p.attempt = p.maxAttempts - 1 THEN returned(asked, "error")
             ELSE [asked EXCEPT !.attempt = @ + 1]
        ELSE IF p.attempt + 1 < p.maxAttempts THEN [asked EXCEPT !.attempt = @ + 1]
             ELSE returned([asked EXCEPT !.attempt = @ + 1], "error")

\* the call: with no attempt allowed the loop is not entered
pollTranscription(maxAttempts) ==
    /\ poll.stage = "idle"
    /\ poll' = IF maxAttempts > 0
               THEN [NoPoll EXCEPT !.stage = "polling", !.maxAttempts = maxAttempts]
               ELSE returned([NoPoll EXCEPT !.maxAttempts = maxAttempts], "error")
    /\ UNCHANGED <<journalContent, now, call, raw, sections, storage, effects,
                   request, speech>>

PollTurn(response) ==
    /\ poll.stage = "polling"
    /\ poll' = pollTurn(poll, response)
    /\ UNCHANGED <<journalContent, now, call, raw, sections, storage, effects,
                   request, speech>>

\* transcribeAudio takes the result
PollReturn ==
    /\ poll.stage = "returned"
    /\ poll' = NoPoll
    /\ UNCHANGED <<journalContent, now, call, raw, sections, storage, effects,
                   request, speech>>

NextPoll ==
    \/ \E maxAttempts \in 0..MaxAttempts : pollTranscription(maxAttempts)
    \/ \E response \in PollResponses : PollTurn(response)
    \/ PollReturn

SpecPoll == InitCleaner /\ [][NextPoll]_vars

(***************************************************************************)
(* Claims about pollTranscription.                                         *)
(***************************************************************************)
\* C29: pollTranscription sends at most maxAttempts status requests and is
\* over once it has sent that many; what it returns has the status
\* completed or error, completed only when a response said completed, and
\* error when the attempts were used up without a response settling it
C29_PollEndsWithinAttempts ==
    /\ poll.requests <= poll.maxAttempts
    /\ poll.stage = "polling" => poll.requests < poll.maxAttempts
    /\ poll.stage = "returned" =>
           /\ poll.status \in {"completed", "error"}
           /\ poll.status = "completed" => InSeq("completed", poll.seen)
           /\ (poll.requests = poll.maxAttempts /\ ~InSeq("completed", poll.seen))
                  => poll.status = "error"

\* every attempt was used and none of the responses settled the call
C29_Witness ==
    /\ poll.stage = "returned"
    /\ poll.maxAttempts = MaxAttempts
    /\ poll.requests = MaxAttempts
    /\ \A i \in 1..Len(poll.seen) : poll.seen[i] \in {"queued", "processing"}

\* a response said completed after a request that failed
C29_WitnessCompleted ==
    /\ poll.stage = "returned"
    /\ poll.status = "completed"
    /\ poll.requests >= 2
    /\ poll.seen[1] = "throws"

(***************************************************************************)
(* SpeechToTextButton: the hold-to-talk button, its two backends, and the  *)
(* events the browser answers with.  The mouse handlers are those of the   *)
(* latest render; the key handlers are those of the render whose effect    *)
(* registered them.                                                        *)
(***************************************************************************)
\* the button after its first render and mount effect: with useAssemblyAI the
\* connection check is under way and no backend is there yet, without it
\* the speech recognition has been created
InitSpeech ==
    /\ journalContent = <<>>
    /\ now = Day0
    /\ call = NoCall
    /\ raw = NoResponse
    /\ sections = <<>>
    /\ storage = Null
    /\ effects = <<>>
    /\ request = NoRequest
    /\ poll = NoPoll
    /\ \E useAssemblyAI \in BOOLEAN :
           speech = [NoSpeech EXCEPT
                        !.useAssemblyAI = useAssemblyAI,
                        !.check = IF useAssemblyAI THEN "pending" ELSE "done",
                        !.recognition = IF useAssemblyAI THEN "null" ELSE "idle"]

SpeechOnly ==
    UNCHANGED <<journalContent, now, call, raw, sections, storage, effects,
                request, poll>>

\* initializeWebSpeechAPI: recognitionRef gets a new recognition, and one
\* that runs goes on without the ref
initializeWebSpeechAPI(s) ==
    [s EXCEPT !.recognition = "idle",
              !.orphan = @ \/ s.recognition \in {"started", "stopping"}]

\* the effect runs again for a new onTranscript, onError or
\* onRawTextCaptured: the services are initialized again and the key
\* handlers are those of this render
effectRuns ==
    /\ speech' = LET s == [speech EXCEPT !.keyListening = speech.isListening,
                                         !.keyAvailable = speech.assemblyAIAvailable]
                 IN  IF s.useAssemblyAI THEN [s EXCEPT !.check = "pending"]
                     ELSE initializeWebSpeechAPI(s)
    /\ SpeechOnly

\* initializeServices behind `await checkConnection()`: the speech
\* recognition is created only when AssemblyAI is not available
checkConnectionReturns(available) ==
    /\ speech.check = "pending"
    /\ speech' = LET s == [speech EXCEPT !.check = "done",
                                         !.assemblyAIAvailable = available]
                 IN  IF available THEN s ELSE initializeWebSpeechAPI(s)
    /\ SpeechOnly

\* startWebSpeechRecognition and the setIsListening(true) behind it: without
\* a recognition nothing is started, and start() on a recognition that runs
\* throws into the catch of startListening
startWebSpeechRecognition(s) ==
    IF s.recognition = "null" THEN [s EXCEPT !.isListening = TRUE]
    ELSE IF s.recognition = "idle"
    THEN [s EXCEPT !.recognition = "started", !.isListening = TRUE]
    ELSE s

\* startListening, up to the await of getUserMedia or to its end, with the
\* isListening and assemblyAIAvailable of the handler's render
startListening(s, isListening, assemblyAIAvailable) ==
    IF isListening THEN s
    ELSE IF s.useAssemblyAI /\ assemblyAIAvailable
    THEN [s EXCEPT !.starting = TRUE]
    ELSE startWebSpeechRecognition(s)

\* stopAssemblyAIRecording: a recorder that records is stopped
stopAssemblyAIRecording(s) ==
    [s EXCEPT !.mediaRecorder = IF @ = "recording" THEN "stopped" ELSE @]

\* stopListening with the isListening of the handler's render: the recorder
\* is stopped, else the recognition is told to stop, which it ignores
\* unless it runs
stopListening(s, isListening) ==
    IF ~isListening THEN s
    ELSE IF s.useAssemblyAI /\ s.mediaRecorder # "null"
    THEN stopAssemblyAIRecording(s)
    ELSE IF s.recognition # "null"
    THEN [s EXCEPT !.recognition = IF @ = "started" THEN "stopping" ELSE @]
    ELSE s

\* a stop was asked for while the button was listening
Requested(s) == [s EXCEPT !.stopRequested = @ \/ speech.isListening]

\* startAssemblyAIRecording behind `await getUserMedia`, and the
\* setIsListening(true) of startListening behind it: a refusal is caught and
\* reported inside startAssemblyAIRecording
getUserMediaSettles(granted) ==
    /\ speech.starting
    /\ speech' = [speech EXCEPT
                     !.starting = FALSE,
                     !.mediaRecorder = IF granted THEN "recording" ELSE @,
                     !.isListening = TRUE]
    /\ SpeechOnly

handleMouseDown ==
    /\ ~speech.starting
    /\ speech' = startListening([speech EXCEPT !.isMouseDown = TRUE],
                                speech.isListening, speech.assemblyAIAvailable)
    /\ SpeechOnly

handleMouseUp ==
    /\ speech.isMouseDown
    /\ speech' = Requested(stopListening([speech EXCEPT !.isMouseDown = FALSE],
                                         speech.isListening))
    /\ SpeechOnly

handleClick ==
    /\ ~speech.isMouseDown
    /\ ~speech.starting
    /\ speech' = IF speech.isListening
                 THEN Requested(stopListening(speech, speech.isListening))
                 ELSE startListening(speech, speech.isListening,
                                     speech.assemblyAIAvailable)
    /\ SpeechOnly

handleKeyDown ==
    /\ ~speech.starting
    /\ speech' = startListening(speech, speech.keyListening, speech.keyAvailable)
    /\ SpeechOnly

handleKeyUp ==
    /\ speech' = Requested(stopListening(speech, speech.keyListening))
    /\ SpeechOnly

\* mediaRecorder.onstop: the recording is transcribed and handed on
mediaRecorderOnStop ==
    /\ speech.mediaRecorder = "stopped"
    /\ speech' = [speech EXCEPT !.mediaRecorder = "inactive", !.isListening = FALSE,
                                !.stopRequested = FALSE]
    /\ SpeechOnly

\* recognition.onend of the recognition in recognitionRef, behind a result,
\* an error, a stop or silence
recognitionOnEnd ==
    /\ speech.recognition \in {"started", "stopping"}
    /\ speech' = [speech EXCEPT !.recognition = "idle", !.isListening = FALSE,
                                !.stopRequested = FALSE]
    /\ SpeechOnly

\* recognition.onend of a recognition the ref no longer holds
orphanOnEnd ==
    /\ speech.orphan
    /\ speech' = [speech EXCEPT !.orphan = FALSE, !.isListening = FALSE,
                                !.stopRequested = FALSE]
    /\ SpeechOnly

NextSpeech ==
    \/ effectRuns
    \/ \E available \in BOOLEAN : checkConnectionReturns(available)
    \/ \E granted \in BOOLEAN : getUserMediaSettles(granted)
    \/ handleMouseDown
    \/ handleMouseUp
    \/ handleClick
    \/ handleKeyDown
    \/ handleKeyUp
    \/ mediaRecorderOnStop
    \/ recognitionOnEnd
    \/ orphanOnEnd

SpecSpeech == InitSpeech /\ [][NextSpeech]_vars

\* the browser delivers the events it owes: the end of a recognition that
\* runs, and the stop of a recorder that was stopped
SpecSpeechFair ==
    SpecSpeech /\ WF_vars(recognitionOnEnd) /\ WF_vars(orphanOnEnd)
               /\ WF_vars(mediaRecorderOnStop)

(***************************************************************************)
(* Claims about SpeechToTextButton.                                        *)
(***************************************************************************)
\* C30: when the button is listening and a stop is requested (mouse up, key
\* up, or a click that toggles), isListening becomes false in the end, also
\* when the backend did not start
C30_StopRequestEndsListening ==
    (speech.isListening /\ speech.stopRequested) ~> ~speech.isListening

====
